---- MODULE Spec2Model ----
(***************************************************************************)
(* Model of the KYC MCP server (server.js, carried in src/Dockerfile):     *)
(*   - the Dataverse credential cache   (getDataverseToken)                *)
(*   - the /mcp session registry        (streamableTransports + routes)    *)
(*   - the document-analysis poller     (extractTextFromDocument)          *)
(* Each component has its own specification over the shared variables;     *)
(* the variables of the other components stay at their initial values.     *)
(***************************************************************************)
EXTENDS Integers, Sequences, FiniteSets, TLC

(***************************************************************************)
(* Bounds of the model.                                                    *)
(***************************************************************************)
NumCallers == 2     \* concurrent invocations of getDataverseToken
MaxExchanges == 3   \* token-exchange requests issued in one run
MaxTicks == 6       \* one-minute steps of the wall clock
MaxTransports == 2  \* transports (initialize requests) created in one run
MaxProbes == 1      \* token exchanges after which /test-dataverse is no longer probed
MaxClientSessions == 1  \* sessions after which a bounded client opens no more
MaxInFlight == 2    \* requests in flight while a document is analysed

VARIABLES
  dataverseToken,   \* let dataverseToken = null   (0 models null)
  tokenExpiry,      \* let tokenExpiry = 0         (ms)
  now,              \* Date.now(), ms since the process started
  exchanges,        \* token-exchange requests issued to the identity provider
  callers           \* per invocation of getDataverseToken: position and result

VARIABLES
  API_KEY,               \* process.env.MCP_API_KEY (<<>> models unset)
  streamableTransports,  \* const streamableTransports = new Map()
  transports,            \* every StreamableHTTPServerTransport created so far
  closed,                \* session ids whose transport has run its close callback
  last                   \* the request handled last and its response

VARIABLES
  DOC_INTELLIGENCE_KEY,  \* process.env.DOC_INTELLIGENCE_KEY ("" models unset)
  poll                   \* one invocation of extractTextFromDocument

VARIABLES
  PERPLEXITY_API_KEY,    \* process.env.PERPLEXITY_API_KEY ("" models unset)
  kyc                    \* one invocation of run_legal_entity_kyc

VARIABLES
  tool                   \* one invocation of a registered tool handler

VARIABLES
  DATAVERSE_CLIENT_ID,      \* process.env.DATAVERSE_CLIENT_ID ("" models unset)
  DATAVERSE_CLIENT_SECRET,  \* process.env.DATAVERSE_CLIENT_SECRET
  served                    \* the HTTP request served last, with its secret carriers

VARIABLES
  flights                   \* the tools/call requests in flight on the sessions

tokenVars == <<dataverseToken, tokenExpiry, now, exchanges, callers>>
sessionVars == <<API_KEY, streamableTransports, transports, closed, last>>
pollVars == <<DOC_INTELLIGENCE_KEY, poll>>
riskVars == <<PERPLEXITY_API_KEY, kyc>>
toolVars == <<tool>>
authVars == <<DATAVERSE_CLIENT_ID, DATAVERSE_CLIENT_SECRET, served>>
flightVars == <<flights>>
vars == <<tokenVars, sessionVars, pollVars, riskVars, toolVars, authVars, flightVars>>

\* What the steps of one component leave alone.
exceptToken == <<sessionVars, pollVars, riskVars, toolVars, authVars, flightVars>>
exceptSession == <<tokenVars, pollVars, riskVars, toolVars, authVars, flightVars>>
exceptPoll == <<tokenVars, sessionVars, riskVars, toolVars, authVars, flightVars>>
exceptRisk == <<tokenVars, sessionVars, pollVars, toolVars, authVars, flightVars>>

(***************************************************************************)
(* CREDENTIAL CACHE                                                        *)
(***************************************************************************)
NoToken == 0
Callers == 1..NumCallers
ExpiresInChoices == {300, 360, 480}   \* data.expires_in, in seconds

IdleCaller == [pc |-> "idle", ret |-> NoToken, attempts |-> 0, resp |-> "none", req |-> 0]

\* if (dataverseToken && Date.now() < tokenExpiry - 300000)
CacheValid_Inclusive(token, expiry, t) == token # NoToken /\ t <= expiry - 300000
CacheValid_Reversed(token, expiry, t) == token # NoToken /\ t > expiry - 300000
CacheValid(token, expiry, t) == token # NoToken /\ t < expiry - 300000

TokenInit ==
  /\ dataverseToken = NoToken
  /\ tokenExpiry = 0
  /\ now = 0
  /\ exchanges = 0
  /\ callers = [c \in Callers |-> IdleCaller]

\* getDataverseToken up to its first suspension point: either the cached
\* token is returned, or the exchange request is issued (await fetch).
GetTokenCall(c) ==
  /\ callers[c].pc = "idle"
  /\ IF CacheValid(dataverseToken, tokenExpiry, now)
       THEN /\ callers' = [callers EXCEPT ![c] =
                 [IdleCaller EXCEPT !.pc = "returned", !.ret = dataverseToken]]
            /\ UNCHANGED exchanges
       ELSE /\ exchanges < MaxExchanges
            /\ exchanges' = exchanges + 1
            /\ callers' = [callers EXCEPT ![c] =
                 [IdleCaller EXCEPT !.pc = "fetching", !.attempts = 1,
                                    !.req = exchanges + 1]]
  /\ UNCHANGED <<dataverseToken, tokenExpiry, now>>

\* The exchange answered with a non-success status: throw new Error(...).
OnExchangeFailed_Fallback(c) ==
  /\ callers' = [callers EXCEPT ![c] =
       IF dataverseToken # NoToken
         THEN [@ EXCEPT !.pc = "returned", !.resp = "fail", !.ret = dataverseToken]
         ELSE [@ EXCEPT !.pc = "threw", !.resp = "fail"]]
  /\ UNCHANGED <<dataverseToken, tokenExpiry>>
OnExchangeFailed_Clears(c) ==
  /\ callers' = [callers EXCEPT ![c] = [@ EXCEPT !.pc = "threw", !.resp = "fail"]]
  /\ dataverseToken' = NoToken
  /\ tokenExpiry' = 0
OnExchangeFailed(c) ==
  /\ callers' = [callers EXCEPT ![c] = [@ EXCEPT !.pc = "threw", !.resp = "fail"]]
  /\ UNCHANGED <<dataverseToken, tokenExpiry>>

\* The exchange answered 2xx: the token and its expiry are stored and the
\* token is returned.  The provider issues a new token value per request.
OnExchangeOk_TokenFirst(c, expires_in) ==
  /\ dataverseToken' = callers[c].req
  /\ UNCHANGED tokenExpiry
  /\ callers' = [callers EXCEPT ![c] =
       [@ EXCEPT !.pc = "returned", !.resp = "ok", !.ret = callers[c].req]]
OnExchangeOk(c, expires_in) ==
  /\ dataverseToken' = callers[c].req
  /\ tokenExpiry' = now + expires_in * 1000
  /\ callers' = [callers EXCEPT ![c] =
       [@ EXCEPT !.pc = "returned", !.resp = "ok", !.ret = callers[c].req]]

ExchangeResponse(c) ==
  /\ callers[c].pc = "fetching"
  /\ \/ OnExchangeFailed(c)
     \/ \E e \in ExpiresInChoices : OnExchangeOk(c, e)
  /\ UNCHANGED <<now, exchanges>>

\* The caller of getDataverseToken has consumed the result (or the error).
CallerDone(c) ==
  /\ callers[c].pc \in {"returned", "threw"}
  /\ callers' = [callers EXCEPT ![c] = IdleCaller]
  /\ UNCHANGED <<dataverseToken, tokenExpiry, now, exchanges>>

Tick ==
  /\ now < MaxTicks * 60000
  /\ now' = now + 60000
  /\ UNCHANGED <<dataverseToken, tokenExpiry, exchanges, callers>>

TokenNext ==
  \/ \E c \in Callers : GetTokenCall(c) /\ UNCHANGED exceptToken
  \/ \E c \in Callers : ExchangeResponse(c) /\ UNCHANGED exceptToken
  \/ \E c \in Callers : CallerDone(c) /\ UNCHANGED exceptToken
  \/ Tick /\ UNCHANGED exceptToken


(***************************************************************************)
(* API KEY AUTHENTICATION MIDDLEWARE                                       *)
(* A string is a sequence of atoms; <<>> is the empty string.  undefined   *)
(* and "" are both falsy everywhere in validateApiKey and are both <<>>.   *)
(***************************************************************************)
NoKey == <<>>
GoodKey == <<"abc123">>
BadKey == <<"xyz">>
Bearer == "Bearer "

\* String.prototype.replace("Bearer ", ""): the first occurrence is removed.
RECURSIVE ReplaceBearer(_)
ReplaceBearer(str) ==
  IF str = <<>> THEN <<>>
  ELSE IF Head(str) = Bearer THEN Tail(str)
  ELSE <<Head(str)>> \o ReplaceBearer(Tail(str))

\* a || b
Or(a, b) == IF a # <<>> THEN a ELSE b

\* req.headers["x-api-key"] || req.headers["authorization"]?.replace(...) || req.query.api_key
ProvidedKey_QueryFirst(req) == Or(Or(req.queryKey, req.xApiKey), ReplaceBearer(req.authorization))
ProvidedKey_HeaderOnly(req) == req.xApiKey
ProvidedKey(req) == Or(Or(req.xApiKey, ReplaceBearer(req.authorization)), req.queryKey)

\* "next" when the request goes on to the route handler, else the status sent.
ValidateApiKey_AcceptsWrong(key, req) ==
  IF key = NoKey THEN "next"
  ELSE IF ProvidedKey(req) = <<>> THEN "401"
  ELSE "next"
ValidateApiKey_AlwaysChecks(key, req) ==
  IF ProvidedKey(req) = <<>> THEN "401"
  ELSE IF ProvidedKey(req) # key THEN "403"
  ELSE "next"
ValidateApiKey(key, req) ==
  IF key = NoKey THEN "next"
  ELSE IF ProvidedKey(req) = <<>> THEN "401"
  ELSE IF ProvidedKey(req) # key THEN "403"
  ELSE "next"

\* The secret carriers of the requests the session model sends.
Credentials ==
  { [xApiKey |-> <<>>, authorization |-> <<>>, queryKey |-> <<>>],
    [xApiKey |-> GoodKey, authorization |-> <<>>, queryKey |-> <<>>],
    [xApiKey |-> <<>>, authorization |-> <<Bearer>> \o BadKey, queryKey |-> <<>>] }

(***************************************************************************)
(* MCP ENDPOINT: the session registry                                      *)
(***************************************************************************)
SessionIds == 1..(MaxTransports + 1)   \* the values a session id can take

\* req.headers["mcp-session-id"]: absent, the empty string, or an id.
NoHeader == [kind |-> "absent", id |-> 0]
EmptyHeader == [kind |-> "empty", id |-> 0]
IdHeader(s) == [kind |-> "id", id |-> s]
Headers == {NoHeader, EmptyHeader} \cup {IdHeader(s) : s \in SessionIds}
Truthy(hdr) == hdr.kind = "id"

\* req.body: the JSON-RPC method, and whether its params satisfy the
\* initialize request schema.
Bodies ==
  { [method |-> "initialize", params |-> TRUE],
    [method |-> "initialize", params |-> FALSE],
    [method |-> "tools/call", params |-> FALSE] }
IsInitializeRequest(body) == body.method = "initialize" /\ body.params

\* What transport.handleRequest does with a request handed to it.
SdkOutcomes == {"ok", "rejected", "threw"}

MapHas(map, k) == k \in DOMAIN map
MapSet(map, k, v) == [x \in DOMAIN map \cup {k} |-> IF x = k THEN v ELSE map[x]]
MapDelete(map, k) == [x \in DOMAIN map \ {k} |-> map[x]]

Created == 1..Len(transports)
Minted == {transports[t].sessionId : t \in Created} \ {0}

\* sessionIdGenerator: () => crypto.randomUUID() -- the values it can return.
RandomUUID_Repeats(used) == SessionIds
RandomUUID(used) == SessionIds \ used

\* if (sessionId && streamableTransports.has(sessionId))
KnownSession(map, hdr) == Truthy(hdr) /\ MapHas(map, hdr.id)

\* transport = streamableTransports.get(sessionId)   (0 models undefined)
GetTransport_First(map, hdr) ==
  IF DOMAIN map # {} THEN map[CHOOSE k \in DOMAIN map : \A j \in DOMAIN map : k <= j] ELSE 0
GetTransport(map, hdr) == IF MapHas(map, hdr.id) THEN map[hdr.id] ELSE 0

\* if (!sessionId && isInitializeRequest(req.body))
ShouldCreateSession_AnyBody(hdr, body) == ~Truthy(hdr)
ShouldCreateSession_IgnoresHeader(hdr, body) == IsInitializeRequest(body)
ShouldCreateSession(hdr, body) == ~Truthy(hdr) /\ IsInitializeRequest(body)

\* if (!sessionId || !streamableTransports.has(sessionId))   (GET and DELETE)
InvalidOrMissing_OnlyMissing(map, hdr) == ~Truthy(hdr)
InvalidOrMissing(map, hdr) == ~Truthy(hdr) \/ ~MapHas(map, hdr.id)

\* onsessioninitialized: (newSessionId) => streamableTransports.set(newSessionId, transport)
OnSessionInitialized(map, sid, t) == MapSet(map, sid, t)

\* transport.onclose: if (sid && streamableTransports.has(sid)) streamableTransports.delete(sid)
OnClose_ClearsAll(map, sid) == IF sid # 0 /\ MapHas(map, sid) THEN <<>> ELSE map
OnClose_Keeps(map, sid) == map
OnClose(map, sid) == IF sid # 0 /\ MapHas(map, sid) THEN MapDelete(map, sid) ELSE map

NoRequest ==
  [route |-> "none", hdr |-> NoHeader, body |-> [method |-> "tools/call", params |-> FALSE],
   auth |-> "next", status |-> 0, handedTo |-> 0, sdk |-> "none"]

Respond(route, hdr, body, auth, status, t, sdk) ==
  /\ last' = [route |-> route, hdr |-> hdr, body |-> body, auth |-> auth,
              status |-> status, handedTo |-> t, sdk |-> sdk]

SessionInit ==
  /\ API_KEY \in {NoKey, GoodKey}
  /\ streamableTransports = <<>>
  /\ transports = <<>>
  /\ closed = {}
  /\ last = NoRequest

SessionIdle ==
  /\ API_KEY = NoKey
  /\ streamableTransports = <<>>
  /\ transports = <<>>
  /\ closed = {}
  /\ last = NoRequest

\* The close callback of transport t runs.
CloseTransport(t) ==
  /\ streamableTransports' = OnClose(streamableTransports, transports[t].sessionId)
  /\ closed' = closed \cup ({transports[t].sessionId} \ {0})
  /\ UNCHANGED transports

\* A response with status 0 is the one the transport wrote itself.
TransportStatus(sdk) == IF sdk = "threw" THEN 500 ELSE 0

\* validateApiKey sent 401 or 403: the route handler does not run.
Rejected_ThenHandled(route, hdr, body, auth) ==
  /\ Respond(route, hdr, body, auth, IF auth = "401" THEN 401 ELSE 403, 0, "none")
  /\ IF KnownSession(streamableTransports, hdr)
       THEN CloseTransport(GetTransport(streamableTransports, hdr))
       ELSE UNCHANGED <<streamableTransports, transports, closed>>
Rejected(route, hdr, body, auth) ==
  /\ Respond(route, hdr, body, auth, IF auth = "401" THEN 401 ELSE 403, 0, "none")
  /\ UNCHANGED <<streamableTransports, transports, closed>>

\* res.status(400).json({ ... "Bad Request: ..." ... })
BadRequest(route, hdr, body) ==
  /\ Respond(route, hdr, body, "next", 400, 0, "none")
  /\ UNCHANGED <<streamableTransports, transports, closed>>

\* new StreamableHTTPServerTransport(...); connect; transport.handleRequest:
\* an accepted initialize generates the session id and runs
\* onsessioninitialized before the response is written.
CreateSession(hdr, body) ==
  /\ Len(transports) < MaxTransports
  /\ \E sdk \in SdkOutcomes :
       LET t == Len(transports) + 1 IN
       /\ Respond("POST", hdr, body, "next", TransportStatus(sdk), t, sdk)
       /\ IF sdk = "ok"
            THEN \E sid \in RandomUUID(Minted) :
                   /\ transports' = Append(transports, [sessionId |-> sid])
                   /\ streamableTransports' = OnSessionInitialized(streamableTransports, sid, t)
            ELSE /\ transports' = Append(transports, [sessionId |-> 0])
                 /\ UNCHANGED streamableTransports
       /\ UNCHANGED closed

\* app.post("/mcp", validateApiKey, express.json(), async (req, res) => ...)
PostMcp(hdr, body, cred) ==
  /\ LET auth == ValidateApiKey(API_KEY, cred) IN
     IF auth # "next" THEN Rejected("POST", hdr, body, auth)
     ELSE IF KnownSession(streamableTransports, hdr) THEN
       /\ \E sdk \in SdkOutcomes :
            Respond("POST", hdr, body, auth, TransportStatus(sdk),
                    GetTransport(streamableTransports, hdr), sdk)
       /\ UNCHANGED <<streamableTransports, transports, closed>>
     ELSE IF ShouldCreateSession(hdr, body) THEN CreateSession(hdr, body)
     ELSE BadRequest("POST", hdr, body)
  /\ UNCHANGED API_KEY

\* app.get("/mcp", validateApiKey, async (req, res) => ...)
GetMcp(hdr, cred) ==
  /\ LET auth == ValidateApiKey(API_KEY, cred)
         body == NoRequest.body IN
     IF auth # "next" THEN Rejected("GET", hdr, body, auth)
     ELSE IF InvalidOrMissing(streamableTransports, hdr) THEN BadRequest("GET", hdr, body)
     ELSE
       /\ \E sdk \in SdkOutcomes \ {"threw"} :
            Respond("GET", hdr, body, auth, 0, GetTransport(streamableTransports, hdr), sdk)
       /\ UNCHANGED <<streamableTransports, transports, closed>>
  /\ UNCHANGED API_KEY

\* app.delete("/mcp", validateApiKey, async (req, res) => ...):
\* a DELETE the transport accepts closes it, which runs its close callback.
DeleteMcp(hdr, cred) ==
  /\ LET auth == ValidateApiKey(API_KEY, cred)
         body == NoRequest.body IN
     IF auth # "next" THEN Rejected("DELETE", hdr, body, auth)
     ELSE IF InvalidOrMissing(streamableTransports, hdr) THEN BadRequest("DELETE", hdr, body)
     ELSE
       \E sdk \in SdkOutcomes :
         LET t == GetTransport(streamableTransports, hdr) IN
         /\ Respond("DELETE", hdr, body, auth, TransportStatus(sdk), t, sdk)
         /\ IF sdk = "ok"
              THEN CloseTransport(t)
              ELSE UNCHANGED <<streamableTransports, transports, closed>>
  /\ UNCHANGED API_KEY

\* The transport is closed from its own side and runs its close callback.
TransportClosed(t) ==
  /\ Respond("close",
             IF transports[t].sessionId = 0 THEN NoHeader ELSE IdHeader(transports[t].sessionId),
             NoRequest.body, "next", 0, t, "ok")
  /\ CloseTransport(t)
  /\ UNCHANGED API_KEY

SessionNext ==
  \/ \E hdr \in Headers, body \in Bodies, cred \in Credentials :
       PostMcp(hdr, body, cred) /\ UNCHANGED exceptSession
  \/ \E hdr \in Headers, cred \in Credentials :
       GetMcp(hdr, cred) /\ UNCHANGED exceptSession
  \/ \E hdr \in Headers, cred \in Credentials :
       DeleteMcp(hdr, cred) /\ UNCHANGED exceptSession
  \/ \E t \in Created : TransportClosed(t) /\ UNCHANGED exceptSession


(***************************************************************************)
(* AZURE DOCUMENT INTELLIGENCE CLIENT: submit, then poll                   *)
(***************************************************************************)
MaxAttempts == 30   \* for (let i = 0; i < 30; i++)

\* result.status as the provider reports it.
Statuses == {"notStarted", "running", "succeeded", "failed"}

\* result.analyzeResult: undefined, or content, pages and the confidence of
\* the first word of the first page (0 models a missing one).
NoAnalyzeResult == [present |-> FALSE, content |-> "", pages |-> 0, confidence |-> 0]
AnalyzeResults ==
  { NoAnalyzeResult,
    [present |-> TRUE, content |-> "", pages |-> 0, confidence |-> 0],
    [present |-> TRUE, content |-> "Invoice 42", pages |-> 2, confidence |-> 99] }

\* result.error of a failed analysis.
ErrorDetails == {"none", "InvalidContent"}

\* The JSON bodies a status poll can return.
PollBodies ==
  { [status |-> st, analyzeResult |-> ar, error |-> er] :
      st \in Statuses, ar \in AnalyzeResults, er \in ErrorDetails }
NoResult == [status |-> "undefined", analyzeResult |-> NoAnalyzeResult, error |-> "none"]

NoOutput == [kind |-> "none", content |-> "", pageCount |-> 0, confidence |-> 0, detail |-> "none"]

IdlePoll ==
  [pc |-> "idle", contentType |-> "", i |-> 0, waits |-> 0, polls |-> 0,
   submits |-> 0, result |-> NoResult, out |-> NoOutput]

PollInit ==
  /\ DOC_INTELLIGENCE_KEY \in {"", "key"}
  /\ poll = IdlePoll

PollIdle ==
  /\ DOC_INTELLIGENCE_KEY = ""
  /\ poll = IdlePoll

\* throw new Error(...)
Throw(kind, detail) ==
  poll' = [poll EXCEPT !.pc = "threw", !.out = [NoOutput EXCEPT !.kind = kind, !.detail = detail]]

\* return { content, pageCount: pages.length, confidence }
Extracted(res) ==
  [kind |-> "result",
   content |-> IF res.analyzeResult.present THEN res.analyzeResult.content ELSE "",
   pageCount |-> IF res.analyzeResult.present THEN res.analyzeResult.pages ELSE 0,
   confidence |-> IF res.analyzeResult.present THEN res.analyzeResult.confidence ELSE 0,
   detail |-> "none"]

\* if (result.status === "succeeded") break;
BreaksLoop_WrongWord(status) == status = "completed"
BreaksLoop(status) == status = "succeeded"

\* else if (result.status === "failed") throw ...
FailsLoop_Never(status) == FALSE
FailsLoop(status) == status = "failed"

\* the loop condition i < 30, evaluated after i++
LoopContinues_OneMore(i) == i <= MaxAttempts
LoopContinues(i) == i < MaxAttempts

\* After the loop: if (result.status !== "succeeded") throw "Analysis timed out",
\* else the extracted text is returned.  result still holds the last report.
AfterLoop_ReturnsAnyway(res) ==
  poll' = [poll EXCEPT !.pc = "returned", !.result = res, !.out = Extracted(res)]
AfterLoop(res) ==
  IF res.status # "succeeded"
    THEN poll' = [poll EXCEPT !.pc = "threw", !.result = res,
                    !.out = [NoOutput EXCEPT !.kind = "Analysis timed out"]]
    ELSE poll' = [poll EXCEPT !.pc = "returned", !.result = res, !.out = Extracted(res)]

\* extractTextFromDocument(base64Content, mimeType) up to the submit request.
ExtractCall_SubmitsAnyway(mimeType) ==
  /\ poll.pc = "idle"
  /\ poll' = [poll EXCEPT !.pc = "submitting", !.submits = 1,
                !.contentType = IF mimeType # "" THEN mimeType ELSE "application/pdf"]
  /\ UNCHANGED DOC_INTELLIGENCE_KEY
ExtractCall(mimeType) ==
  /\ poll.pc = "idle"
  /\ IF DOC_INTELLIGENCE_KEY = ""
       THEN Throw("Document Intelligence not configured", "none")
       ELSE poll' = [poll EXCEPT !.pc = "submitting", !.submits = 1,
                       !.contentType = IF mimeType # "" THEN mimeType ELSE "application/pdf"]
  /\ UNCHANGED DOC_INTELLIGENCE_KEY

\* The analyze request was answered; on success the loop starts with its
\* first one-second wait.
SubmitResponse_PollsFirst(ok, operationLocation) ==
  /\ poll.pc = "submitting"
  /\ IF ~ok THEN Throw("Document Intelligence error", "none")
     ELSE IF ~operationLocation THEN Throw("No operation location", "none")
     ELSE poll' = [poll EXCEPT !.pc = "polling", !.i = 0, !.polls = 1]
  /\ UNCHANGED DOC_INTELLIGENCE_KEY
SubmitResponse(ok, operationLocation) ==
  /\ poll.pc = "submitting"
  /\ IF ~ok THEN Throw("Document Intelligence error", "none")
     ELSE IF ~operationLocation THEN Throw("No operation location", "none")
     ELSE poll' = [poll EXCEPT !.pc = "waiting", !.i = 0]
  /\ UNCHANGED DOC_INTELLIGENCE_KEY

\* setTimeout(resolve, 1000) fired: the status request is issued.
TimerFired ==
  /\ poll.pc = "waiting"
  /\ poll' = [poll EXCEPT !.pc = "polling", !.waits = @ + 1, !.polls = @ + 1]
  /\ UNCHANGED DOC_INTELLIGENCE_KEY

\* The status request was answered.
PollResponse_IgnoresHttpStatus(ok, res) ==
  /\ poll.pc = "polling"
  /\ IF BreaksLoop(res.status) THEN AfterLoop(res)
     ELSE IF FailsLoop(res.status)
       THEN poll' = [poll EXCEPT !.pc = "threw", !.result = res,
                       !.out = [NoOutput EXCEPT !.kind = "Analysis failed", !.detail = res.error]]
     ELSE IF LoopContinues(poll.i + 1)
       THEN poll' = [poll EXCEPT !.pc = "waiting", !.i = @ + 1, !.result = res]
     ELSE /\ AfterLoop(res)
  /\ UNCHANGED DOC_INTELLIGENCE_KEY
PollResponse(ok, res) ==
  /\ poll.pc = "polling"
  /\ IF ~ok THEN Throw("Polling error", "none")
     ELSE IF BreaksLoop(res.status) THEN AfterLoop(res)
     ELSE IF FailsLoop(res.status)
       THEN poll' = [poll EXCEPT !.pc = "threw", !.result = res,
                       !.out = [NoOutput EXCEPT !.kind = "Analysis failed", !.detail = res.error]]
     ELSE IF LoopContinues(poll.i + 1)
       THEN poll' = [poll EXCEPT !.pc = "waiting", !.i = @ + 1, !.result = res]
     ELSE /\ AfterLoop(res)
  /\ UNCHANGED DOC_INTELLIGENCE_KEY

PollNext ==
  \/ \E mimeType \in {"", "image/png"} :
       ExtractCall(mimeType) /\ UNCHANGED exceptPoll
  \/ \E ok \in BOOLEAN, loc \in BOOLEAN :
       SubmitResponse(ok, loc) /\ UNCHANGED exceptPoll
  \/ TimerFired /\ UNCHANGED exceptPoll
  \/ \E ok \in BOOLEAN, res \in PollBodies :
       PollResponse(ok, res) /\ UNCHANGED exceptPoll

(***************************************************************************)
(* RISK AGGREGATOR: the run_legal_entity_kyc tool handler                  *)
(***************************************************************************)
CheckNames == {"gleifSearch", "leiVerification", "adverseMedia"}

\* results.checks = {}: a check that has written nothing has no entry.
NoCheck == [status |-> "absent", valid |-> TRUE, detail |-> "none"]

\* The leiCode argument (z.string().optional()); "" models a missing or
\* empty one, both falsy.
LeiCodes == {"", "529900T8BM49AURSDO55"}

\* const results = { companyName, timestamp, checks: {}, overallRisk: "LOW",
\*                   riskFactors: [] }
NewResults(leiCode) ==
  [pc |-> "idle", leiCode |-> leiCode,
   checks |-> [c \in CheckNames |-> NoCheck],
   riskFactors |-> <<>>, overallRisk |-> "LOW", fetches |-> <<>>]

KycIdle == NewResults("")

RiskInit ==
  /\ PERPLEXITY_API_KEY \in {"", "pplx-key"}
  /\ kyc = KycIdle

RiskIdle ==
  /\ PERPLEXITY_API_KEY = ""
  /\ kyc = KycIdle

\* What an awaited fetch can come to: the promise rejects, or the response
\* body cannot be read as the code reads it (kind "threw"), or a response
\* with an HTTP status arrives.
GleifOutcomes ==
  { [kind |-> "threw", status |-> 0, matches |-> 0] }
    \cup { [kind |-> "http", status |-> st, matches |-> n] :
             st \in {200, 404, 500}, n \in {0, 2} }

\* registration?.status of the LEI record ("undefined" models a missing one)
RegistrationStatuses == {"ISSUED", "LAPSED", "undefined"}
LeiOutcomes ==
  { [kind |-> "threw", status |-> 0, registration |-> "undefined"] }
    \cup { [kind |-> "http", status |-> st, registration |-> rs] :
             st \in {200, 404, 500}, rs \in RegistrationStatuses }

\* choices?.[0]?.message?.content || "", as a sequence of words
Contents ==
  { <<>>, <<"No", "adverse", "findings">>, <<"Sanction", "evaded">>,
    <<"was", "convicted", "of", "Fraud">> }
MediaOutcomes ==
  { [kind |-> "threw", status |-> 0, content |-> <<>>] }
    \cup { [kind |-> "http", status |-> st, content |-> ct] :
             st \in {200, 429}, ct \in Contents }

\* response.ok
ResponseOk(status) == status >= 200 /\ status <= 299

\* screening.toLowerCase()
ToLowerCase(word) ==
  CASE word = "Sanction" -> "sanction"
    [] word = "Fraud" -> "fraud"
    [] word = "No" -> "no"
    [] OTHER -> word

\* lower.includes("sanction") || lower.includes("fraud") ||
\* lower.includes("money laundering") || lower.includes("convicted")
RedFlagWords == {"sanction", "fraud", "money laundering", "convicted"}
HasRedFlags(content) ==
  \E n \in 1..Len(content) : ToLowerCase(content[n]) \in RedFlagWords

Completed(valid, detail) == [status |-> "completed", valid |-> valid, detail |-> detail]
Skipped(reason) == [status |-> "skipped", valid |-> TRUE, detail |-> reason]
Errored(detail) == [status |-> "error", valid |-> TRUE, detail |-> detail]

\* error: `HTTP ${response.status}`
HttpError(status) == "HTTP " \o ToString(status)

\* results.checks.<name> = ...
SetCheck(k, name, res) == [k EXCEPT !.checks[name] = res]

\* results.riskFactors.push(factor)
Push_Twice(k, factor) == [k EXCEPT !.riskFactors = Append(Append(@, factor), factor)]
Push(k, factor) == [k EXCEPT !.riskFactors = Append(@, factor)]

\* The else branch of response.ok and the catch block of a check: the check
\* is recorded as an error and nothing is pushed.
CheckErrored_CountsAsRisk(k, name, detail) ==
  Push(SetCheck(k, name, Errored(detail)), "Check failed")
CheckErrored(k, name, detail) == SetCheck(k, name, Errored(detail))

\* Determine overall risk
RiskLevel_FromTwo(n) ==
  IF n >= 2 THEN "HIGH" ELSE IF n >= 1 THEN "MEDIUM" ELSE "LOW"
RiskLevel(n) ==
  IF n >= 3 THEN "HIGH" ELSE IF n >= 1 THEN "MEDIUM" ELSE "LOW"

\* if (riskFactors.length >= 3) ... ; return { content: [...] }
Finish(k) ==
  [k EXCEPT !.overallRisk = RiskLevel(Len(k.riskFactors)), !.pc = "returned"]

\* Step 3: adverse-media screening, or its skipped entry when no key is set.
StartMedia_UnlessFailed(k) ==
  IF \E c \in CheckNames : k.checks[c].status = "error"
    THEN Finish(k)
    ELSE IF PERPLEXITY_API_KEY # ""
      THEN [k EXCEPT !.pc = "adverseMedia", !.fetches = Append(@, "adverseMedia")]
      ELSE Finish(SetCheck(k, "adverseMedia", Skipped("Perplexity API key not configured")))
StartMedia(k) ==
  IF PERPLEXITY_API_KEY # ""
    THEN [k EXCEPT !.pc = "adverseMedia", !.fetches = Append(@, "adverseMedia")]
    ELSE Finish(SetCheck(k, "adverseMedia", Skipped("Perplexity API key not configured")))

\* Step 2: if (leiCode) { ... }, with no else branch.
StartLei(k) ==
  IF k.leiCode # ""
    THEN [k EXCEPT !.pc = "leiVerification", !.fetches = Append(@, "leiVerification")]
    ELSE StartMedia(k)

\* Step 1, from the response of the name search to the end of its try block.
GleifResult(k, o) ==
  IF o.kind = "threw" THEN CheckErrored(k, "gleifSearch", "fetch failed")
  ELSE IF ResponseOk(o.status)
    THEN IF o.matches = 0
      THEN Push(SetCheck(k, "gleifSearch", Completed(TRUE, "none")),
                "Company not found in GLEIF registry")
      ELSE SetCheck(k, "gleifSearch", Completed(TRUE, "none"))
  ELSE CheckErrored(k, "gleifSearch", HttpError(o.status))

\* Step 2, from the response of the LEI lookup to the end of its try block.
LeiResult(k, o) ==
  IF o.kind = "threw" THEN CheckErrored(k, "leiVerification", "fetch failed")
  ELSE IF ResponseOk(o.status)
    THEN IF o.registration # "ISSUED"
      THEN Push(SetCheck(k, "leiVerification", Completed(TRUE, "none")),
                "LEI registration status: " \o o.registration)
      ELSE SetCheck(k, "leiVerification", Completed(TRUE, "none"))
  ELSE IF o.status = 404
    THEN Push(SetCheck(k, "leiVerification", Completed(FALSE, "LEI not found")),
              "Provided LEI not found in GLEIF database")
  ELSE CheckErrored(k, "leiVerification", HttpError(o.status))

\* Step 3, from the response of the screening call to the end of its try block.
MediaResult(k, o) ==
  IF o.kind = "threw" THEN CheckErrored(k, "adverseMedia", "fetch failed")
  ELSE IF ResponseOk(o.status)
    THEN IF HasRedFlags(o.content)
      THEN Push(SetCheck(k, "adverseMedia", Completed(TRUE, "none")),
                "Adverse media findings detected")
      ELSE SetCheck(k, "adverseMedia", Completed(TRUE, "none"))
  ELSE CheckErrored(k, "adverseMedia", HttpError(o.status))

\* async ({ companyName, leiCode }) => ... up to the first await.
KycCall(leiCode) ==
  /\ kyc.pc = "idle"
  /\ kyc' = [NewResults(leiCode) EXCEPT !.pc = "gleifSearch", !.fetches = <<"gleifSearch">>]
  /\ UNCHANGED PERPLEXITY_API_KEY

\* The name search was answered (or failed); the handler runs on to the next
\* await or to its return.
GleifResponse(o) ==
  /\ kyc.pc = "gleifSearch"
  /\ kyc' = StartLei(GleifResult(kyc, o))
  /\ UNCHANGED PERPLEXITY_API_KEY

LeiResponse(o) ==
  /\ kyc.pc = "leiVerification"
  /\ kyc' = StartMedia(LeiResult(kyc, o))
  /\ UNCHANGED PERPLEXITY_API_KEY

MediaResponse(o) ==
  /\ kyc.pc = "adverseMedia"
  /\ kyc' = Finish(MediaResult(kyc, o))
  /\ UNCHANGED PERPLEXITY_API_KEY

RiskNext ==
  \/ \E leiCode \in LeiCodes :
       KycCall(leiCode) /\ UNCHANGED exceptRisk
  \/ \E o \in GleifOutcomes :
       GleifResponse(o) /\ UNCHANGED exceptRisk
  \/ \E o \in LeiOutcomes :
       LeiResponse(o) /\ UNCHANGED exceptRisk
  \/ \E o \in MediaOutcomes :
       MediaResponse(o) /\ UNCHANGED exceptRisk

(***************************************************************************)
(* TOOL HANDLERS: the callbacks registered with mcpServer.tool             *)
(* One invocation at a time; callDataverse runs getDataverseToken as       *)
(* caller 1 of the credential cache, read_document_content runs the        *)
(* poller and run_legal_entity_kyc the risk aggregator.                    *)
(***************************************************************************)
DataverseTools ==
  {"list_customers", "get_customer", "get_customer_documents",
   "read_document_content", "update_customer_status", "get_kyc_summary"}
FetchTools == {"search_company", "verify_lei", "screen_adverse_media"}
ToolNames == DataverseTools \cup FetchTools \cup {"run_legal_entity_kyc"}

Guid == "3f2504e0-4f89-11d3-9a0c-0305e82c3301"
\* guidPattern.test(documentId)
GuidPattern(str) == str = Guid

\* A 20-character LEI, one that is too short, one in lower case.
GoodLei == [len |-> 20, upperAlnum |-> TRUE]
LeiArgs == {GoodLei, [len |-> 19, upperAlnum |-> TRUE], [len |-> 20, upperAlnum |-> FALSE]}
\* /^[A-Z0-9]{20}$/.test(leiCode)
LeiPattern_LengthOnly(code) == code.len = 20
LeiPattern(code) == code.len = 20 /\ code.upperAlnum

\* The arguments of a call; "" models a missing or empty string, 0 a
\* missing or zero number.
NoArgs ==
  [customerId |-> "", customerName |-> "", documentId |-> "", filename |-> "",
   status |-> 0, lei |-> GoodLei, leiCode |-> ""]

ArgsOf(name) ==
  CASE name = "list_customers" ->
         {[NoArgs EXCEPT !.status = s] : s \in {0, 2}}
    [] name = "get_customer" ->
         {[NoArgs EXCEPT !.customerId = id, !.customerName = nm] :
            id \in {"", Guid}, nm \in {"", "Ann"}}
    [] name = "get_customer_documents" ->
         {[NoArgs EXCEPT !.customerId = id] : id \in {"", Guid}}
    [] name = "read_document_content" ->
         {[NoArgs EXCEPT !.documentId = id, !.filename = fn] :
            id \in {"", Guid, "passport.pdf"}, fn \in {"", "passport.pdf"}}
    [] name = "update_customer_status" ->
         {[NoArgs EXCEPT !.customerId = id, !.status = s] :
            id \in {"", Guid}, s \in {-1, 0, 1, 4, 5}}
    [] name = "verify_lei" ->
         {[NoArgs EXCEPT !.lei = l] : l \in LeiArgs}
    [] name = "run_legal_entity_kyc" ->
         {[NoArgs EXCEPT !.leiCode = l] : l \in LeiCodes}
    [] OTHER -> {NoArgs}

NoOut == [kind |-> "none", text |-> "none"]
IdleTool ==
  [name |-> "none", args |-> NoArgs, pc |-> "idle", method |-> "none",
   calls |-> <<>>, out |-> NoOut]

ToolInit == tool = IdleTool
ToolIdle == tool = IdleTool

\* return { content: [{ type: "text", text }] }; kind tells a result from a
\* guard message and from a caught error.
Return(t, kind, text) == [t EXCEPT !.pc = "returned", !.out = [kind |-> kind, text |-> text]]

\* An exception leaves the handler: the promise it returned is rejected.
Escape(t, message) == [t EXCEPT !.pc = "threw", !.out = [kind |-> "exception", text |-> message]]

\* Whether the await the handler is suspended at sits inside a try block.
InTry(name, pc) ==
  CASE name \in {"list_customers", "get_customer", "get_customer_documents"} -> TRUE
    [] name = "/test-dataverse" -> TRUE
    [] name = "read_document_content" -> pc = "extract"
    [] name \in {"update_customer_status", "get_kyc_summary"} -> FALSE
    [] name \in FetchTools -> TRUE
    [] OTHER -> FALSE

\* text: `Error: ${error.message}`
ErrorText(name, message) ==
  IF name = "read_document_content"
    THEN "Error extracting text from document: " \o message
  ELSE IF name = "/test-dataverse"
    THEN "Failed to connect to Dataverse: " \o message
  ELSE "Error: " \o message

\* An exception raised at the await the handler is suspended at, or in the
\* code that follows it up to the next await.
Raise(t, message) ==
  IF InTry(t.name, t.pc)
    THEN Return(t, "error", ErrorText(t.name, message))
    ELSE Escape(t, message)

\* await callDataverse(endpoint, method): getDataverseToken is entered.
CallDataverse_AlwaysPatch(t, method) == [t EXCEPT !.pc = "token", !.method = "PATCH"]
CallDataverse(t, method) == [t EXCEPT !.pc = "token", !.method = method]

\* await fetch(url) of a tool that calls a public API itself.
Fetch(t, api) == [t EXCEPT !.pc = "fetch", !.calls = Append(@, api)]

\* The handler from its entry to its first await or to an early return.
Entry_NoRangeCheck(name, args) ==
  LET t == [IdleTool EXCEPT !.name = name, !.args = args] IN
  CASE name = "list_customers" -> CallDataverse(t, "GET")
    [] name = "get_customer" ->
         IF args.customerId # "" \/ args.customerName # ""
           THEN CallDataverse(t, "GET")
           ELSE Return(t, "message", "Please provide either customerId or customerName")
    [] name = "get_customer_documents" ->
         IF args.customerId = ""
           THEN Return(t, "message", "customerId is required")
           ELSE CallDataverse(t, "GET")
    [] name = "read_document_content" ->
         IF args.documentId = "" /\ args.filename = ""
           THEN Return(t, "message", "Either documentId or filename is required")
           ELSE CallDataverse(t, "GET")
    [] name = "update_customer_status" ->
         IF args.customerId = "" \/ args.status = 0
           THEN Return(t, "message", "customerId and status are required")
         ELSE CallDataverse(t, "PATCH")
    [] name = "get_kyc_summary" -> CallDataverse(t, "GET")
    [] name = "search_company" -> Fetch(t, "gleif")
    [] name = "verify_lei" ->
         IF ~LeiPattern(args.lei)
           THEN Return(t, "message", "Invalid LEI format")
           ELSE Fetch(t, "gleif")
    [] name = "screen_adverse_media" ->
         IF PERPLEXITY_API_KEY = ""
           THEN Return(t, "message", "Error: Perplexity API key not configured")
           ELSE Fetch(t, "perplexity")
    [] name = "run_legal_entity_kyc" -> [t EXCEPT !.pc = "kyc"]
    [] name = "/test-dataverse" -> CallDataverse(t, "GET")
Entry(name, args) ==
  LET t == [IdleTool EXCEPT !.name = name, !.args = args] IN
  CASE name = "list_customers" -> CallDataverse(t, "GET")
    [] name = "get_customer" ->
         IF args.customerId # "" \/ args.customerName # ""
           THEN CallDataverse(t, "GET")
           ELSE Return(t, "message", "Please provide either customerId or customerName")
    [] name = "get_customer_documents" ->
         IF args.customerId = ""
           THEN Return(t, "message", "customerId is required")
           ELSE CallDataverse(t, "GET")
    [] name = "read_document_content" ->
         IF args.documentId = "" /\ args.filename = ""
           THEN Return(t, "message", "Either documentId or filename is required")
           ELSE CallDataverse(t, "GET")
    [] name = "update_customer_status" ->
         IF args.customerId = "" \/ args.status = 0
           THEN Return(t, "message", "customerId and status are required")
         ELSE IF args.status < 1 \/ args.status > 4
           THEN Return(t, "message", "status must be 1, 2, 3 or 4")
         ELSE CallDataverse(t, "PATCH")
    [] name = "get_kyc_summary" -> CallDataverse(t, "GET")
    [] name = "search_company" -> Fetch(t, "gleif")
    [] name = "verify_lei" ->
         IF ~LeiPattern(args.lei)
           THEN Return(t, "message", "Invalid LEI format")
           ELSE Fetch(t, "gleif")
    [] name = "screen_adverse_media" ->
         IF PERPLEXITY_API_KEY = ""
           THEN Return(t, "message", "Error: Perplexity API key not configured")
           ELSE Fetch(t, "perplexity")
    [] name = "run_legal_entity_kyc" -> [t EXCEPT !.pc = "kyc"]
    [] name = "/test-dataverse" -> CallDataverse(t, "GET")

\* What the record store answers: the request fails (kind "threw"), or a
\* response arrives.  rows is the length of body.value (-1: the body has no
\* value array), fileContent whether the document carries cr_filecontent.
StoreOutcomes ==
  { [kind |-> "threw", status |-> 0, rows |-> -1, fileContent |-> FALSE] }
    \cup { [kind |-> "http", status |-> st, rows |-> n, fileContent |-> fc] :
             st \in {200, 204, 500}, n \in {-1, 0, 1}, fc \in BOOLEAN }

\* if (response.status === 204) return { success: true }; return response.json()
StoreBody(o) == IF o.status = 204 THEN [o EXCEPT !.rows = -1, !.fileContent = FALSE] ELSE o

\* read_document_content: a GUID is looked up directly, anything else is
\* searched by file name.
LooksUpById(args) == args.documentId # "" /\ GuidPattern(args.documentId)

\* The handler from the result of callDataverse to its next await or return.
AfterStore(t, body) ==
  CASE t.name \in {"list_customers", "get_customer_documents", "get_kyc_summary"} ->
         IF body.rows = -1
           THEN Raise(t, "Cannot read properties of undefined")
           ELSE Return(t, "result", "json")
    [] t.name = "get_customer" ->
         IF t.args.customerId # "" THEN Return(t, "result", "json")
         ELSE IF body.rows = -1 THEN Raise(t, "Cannot read properties of undefined")
         ELSE IF body.rows = 0 THEN Return(t, "message", "No customer found")
         ELSE Return(t, "result", "json")
    [] t.name = "read_document_content" ->
         IF ~LooksUpById(t.args) /\ body.rows \in {-1, 0}
           THEN Return(t, "message", "No document found")
         ELSE IF ~body.fileContent
           THEN Return(t, "message", "No file content found for this document")
         ELSE [t EXCEPT !.pc = "extract"]
    [] t.name = "update_customer_status" ->
         Return(t, "result", "Customer status updated")
    [] t.name = "/test-dataverse" ->
         Return(t, "result", "Successfully connected to Dataverse")

\* callDataverse from the response of the record store on.
StoreResult_Retries(t, o) ==
  IF o.kind = "threw" \/ ~ResponseOk(o.status)
    THEN [t EXCEPT !.calls = Append(@, t.method)]
  ELSE AfterStore(t, StoreBody(o))
StoreResult(t, o) ==
  IF o.kind = "threw" THEN Raise(t, "fetch failed")
  ELSE IF ~ResponseOk(o.status)
    THEN Raise(t, "Dataverse API error " \o ToString(o.status))
  ELSE AfterStore(t, StoreBody(o))

\* What a public API answers a tool's own fetch; wellFormed tells whether
\* the body has the fields the handler dereferences.
FetchOutcomes ==
  { [kind |-> "threw", status |-> 0, wellFormed |-> FALSE] }
    \cup { [kind |-> "http", status |-> st, wellFormed |-> wf] :
             st \in {200, 404, 500}, wf \in BOOLEAN }

\* search_company, verify_lei and screen_adverse_media after their fetch.
FetchResult(t, o) ==
  IF o.kind = "threw" THEN Raise(t, "fetch failed")
  ELSE IF t.name = "verify_lei" /\ o.status = 404
    THEN Return(t, "message", "LEI not found in GLEIF database.")
  ELSE IF ~ResponseOk(o.status)
    THEN Raise(t, "API error " \o ToString(o.status))
  ELSE IF ~o.wellFormed THEN Raise(t, "Cannot read properties of undefined")
  ELSE Return(t, "result", "json")

\* A tools/call request reaches the handler.
ToolCall(name, args) ==
  /\ tool.pc = "idle"
  /\ callers[1].pc = "idle"
  /\ tool' = Entry(name, args)
  /\ IF tool'.pc = "token"
       THEN GetTokenCall(1)
       ELSE UNCHANGED tokenVars
  /\ IF tool'.pc = "kyc"
       THEN KycCall(args.leiCode)
       ELSE UNCHANGED riskVars
  /\ UNCHANGED pollVars

\* The identity provider answers the exchange getDataverseToken awaits.
ToolExchangeResponse ==
  /\ tool.pc = "token"
  /\ ExchangeResponse(1)
  /\ UNCHANGED <<tool, pollVars, riskVars>>

\* getDataverseToken has settled: its error leaves callDataverse, or the
\* record-store request is issued.
TokenSettled ==
  /\ tool.pc = "token"
  /\ callers[1].pc \in {"returned", "threw"}
  /\ tool' = IF callers[1].pc = "threw"
               THEN Raise(tool, "Failed to get Dataverse token")
               ELSE [tool EXCEPT !.pc = "store", !.calls = Append(@, tool.method)]
  /\ CallerDone(1)
  /\ UNCHANGED <<pollVars, riskVars>>

\* The record store answers; read_document_content goes on to
\* extractTextFromDocument(document.cr_filecontent, document.cr_mimetype).
StoreResponse(o, mimeType) ==
  /\ tool.pc = "store"
  /\ tool' = StoreResult(tool, o)
  /\ IF tool'.pc = "extract"
       THEN ExtractCall(mimeType)
       ELSE UNCHANGED pollVars
  /\ UNCHANGED <<tokenVars, riskVars>>

\* The reports the provider gives while a tool waits for it.
ToolPollBodies ==
  { res \in PollBodies :
      \/ res.status = "running" /\ ~res.analyzeResult.present /\ res.error = "none"
      \/ res.status = "succeeded" /\ res.analyzeResult.pages = 2 /\ res.error = "none"
      \/ res.status = "failed" /\ ~res.analyzeResult.present /\ res.error = "InvalidContent" }

\* extractTextFromDocument runs on while the handler awaits it.
ExtractStep ==
  /\ tool.pc = "extract"
  /\ \/ \E ok \in BOOLEAN, loc \in BOOLEAN : SubmitResponse(ok, loc)
     \/ TimerFired
     \/ \E ok \in BOOLEAN, res \in ToolPollBodies : PollResponse(ok, res)
  /\ UNCHANGED <<tool, tokenVars, riskVars>>

\* extractTextFromDocument has settled.
ExtractSettled ==
  /\ tool.pc = "extract"
  /\ poll.pc \in {"returned", "threw"}
  /\ tool' = IF poll.pc = "threw"
               THEN Raise(tool, poll.out.kind)
               ELSE Return(tool, "result", "json")
  /\ poll' = IdlePoll
  /\ UNCHANGED <<DOC_INTELLIGENCE_KEY, tokenVars, riskVars>>

\* A public API answers the fetch of search_company, verify_lei or
\* screen_adverse_media.
FetchResponse(o) ==
  /\ tool.pc = "fetch"
  /\ tool' = FetchResult(tool, o)
  /\ UNCHANGED <<tokenVars, pollVars, riskVars>>

\* run_legal_entity_kyc runs on while its fetches are answered.
KycStep ==
  /\ tool.pc = "kyc"
  /\ \/ \E o \in GleifOutcomes : GleifResponse(o)
     \/ \E o \in LeiOutcomes : LeiResponse(o)
     \/ \E o \in MediaOutcomes : MediaResponse(o)
  /\ UNCHANGED <<tool, tokenVars, pollVars>>

\* run_legal_entity_kyc returns its assessment.
KycSettled ==
  /\ tool.pc = "kyc"
  /\ kyc.pc = "returned"
  /\ tool' = Return(tool, "result", kyc.overallRisk)
  /\ kyc' = KycIdle
  /\ UNCHANGED <<PERPLEXITY_API_KEY, tokenVars, pollVars>>

\* The SDK has taken the handler's result (or its rejection).
ToolDone ==
  /\ tool.name \in ToolNames
  /\ tool.pc \in {"returned", "threw"}
  /\ tool' = IdleTool
  /\ UNCHANGED <<tokenVars, pollVars, riskVars>>

ToolsNext ==
  \/ \E name \in ToolNames : \E args \in ArgsOf(name) :
       ToolCall(name, args) /\ UNCHANGED <<flightVars, sessionVars, authVars>>
  \/ ToolExchangeResponse /\ UNCHANGED <<flightVars, sessionVars, authVars>>
  \/ TokenSettled /\ UNCHANGED <<flightVars, sessionVars, authVars>>
  \/ \E o \in StoreOutcomes, mimeType \in {"", "image/png"} :
       StoreResponse(o, mimeType) /\ UNCHANGED <<flightVars, sessionVars, authVars>>
  \/ ExtractStep /\ UNCHANGED <<flightVars, sessionVars, authVars>>
  \/ ExtractSettled /\ UNCHANGED <<flightVars, sessionVars, authVars>>
  \/ \E o \in FetchOutcomes : FetchResponse(o) /\ UNCHANGED <<flightVars, sessionVars, authVars>>
  \/ KycStep /\ UNCHANGED <<flightVars, sessionVars, authVars>>
  \/ KycSettled /\ UNCHANGED <<flightVars, sessionVars, authVars>>
  \/ ToolDone /\ UNCHANGED <<flightVars, sessionVars, authVars>>

(***************************************************************************)
(* HTTP ROUTES: which routes run validateApiKey, /health, /test-dataverse  *)
(* The client of this specification sends one request at a time and uses   *)
(* every secret carrier.                                                   *)
(***************************************************************************)
UpperKey == <<"ABC123">>

\* x-api-key, Authorization and ?api_key= of a request: no carrier, each
\* carrier alone, and requests that use two carriers with different values.
Carriers(x, a, q) == [xApiKey |-> x, authorization |-> a, queryKey |-> q]
AllCredentials ==
  { Carriers(<<>>, <<>>, <<>>) }
    \cup { Carriers(x, <<>>, <<>>) : x \in {GoodKey, BadKey, UpperKey} }
    \cup { Carriers(<<>>, a, <<>>) :
             a \in {<<Bearer>>, <<Bearer>> \o GoodKey, <<Bearer>> \o BadKey, GoodKey} }
    \cup { Carriers(<<>>, <<>>, q) : q \in {GoodKey, BadKey} }
    \cup { Carriers(BadKey, <<>>, GoodKey), Carriers(GoodKey, <<Bearer>> \o BadKey, <<>>),
           Carriers(<<>>, <<Bearer>> \o BadKey, GoodKey) }

NoJson == [secured |-> FALSE, dataverseConfigured |-> FALSE, docIntelligenceConfigured |-> FALSE]
NoServed ==
  [route |-> "none", cred |-> [xApiKey |-> <<>>, authorization |-> <<>>, queryKey |-> <<>>],
   reached |-> FALSE, status |-> 0, json |-> NoJson]

\* reached: the route handler was entered; status: the status of the
\* response (0 while the handler runs or when the transport wrote it).
Served(route, cred, reached, status, json) ==
  [route |-> route, cred |-> cred, reached |-> reached, status |-> status, json |-> json]

AuthInit ==
  /\ DATAVERSE_CLIENT_ID = "client-id"
  /\ DATAVERSE_CLIENT_SECRET \in {"", "client-secret"}
  /\ served = NoServed

AuthIdle ==
  /\ DATAVERSE_CLIENT_ID = "client-id"
  /\ DATAVERSE_CLIENT_SECRET = "client-secret"
  /\ served = NoServed

\* secured: !!API_KEY
Secured(key) == key # NoKey

\* app.get("/health", (req, res) => res.json({...})): no validateApiKey.
Health(cred) ==
  /\ tool.pc = "idle"
  /\ served' = Served("GET /health", cred, TRUE, 200,
                      [secured |-> Secured(API_KEY),
                       dataverseConfigured |->
                         DATAVERSE_CLIENT_ID # "" /\ DATAVERSE_CLIENT_SECRET # "",
                       docIntelligenceConfigured |-> DOC_INTELLIGENCE_KEY # ""])
  /\ UNCHANGED <<DATAVERSE_CLIENT_ID, DATAVERSE_CLIENT_SECRET>>

\* app.get("/test-dataverse", validateApiKey, async (req, res) => ...) up to
\* the first await of callDataverse("cr_kyccustomers?$top=1").
TestDataverse(cred) ==
  /\ tool.pc = "idle"
  /\ callers[1].pc = "idle"
  /\ LET auth == ValidateApiKey(API_KEY, cred) IN
     IF auth # "next"
       THEN /\ served' = Served("GET /test-dataverse", cred, FALSE,
                                IF auth = "401" THEN 401 ELSE 403, NoJson)
            /\ UNCHANGED <<tool, tokenVars>>
       ELSE /\ served' = Served("GET /test-dataverse", cred, TRUE, 0, NoJson)
            /\ tool' = Entry("/test-dataverse", NoArgs)
            /\ GetTokenCall(1)
  /\ UNCHANGED <<DATAVERSE_CLIENT_ID, DATAVERSE_CLIENT_SECRET>>

\* res.json({ success: true, ... }) or, from the catch block,
\* res.status(500).json({ success: false, ... }).
TestDataverseDone ==
  /\ tool.name = "/test-dataverse"
  /\ tool.pc = "returned"
  /\ served' = [served EXCEPT !.status = IF tool.out.kind = "error" THEN 500 ELSE 200]
  /\ tool' = IdleTool
  /\ UNCHANGED <<DATAVERSE_CLIENT_ID, DATAVERSE_CLIENT_SECRET>>

\* The /mcp routes, as this client calls them: without a session id.
McpServed(route, cred) ==
  /\ served' = Served(route, cred, last'.auth = "next", last'.status, NoJson)
  /\ UNCHANGED <<DATAVERSE_CLIENT_ID, DATAVERSE_CLIENT_SECRET>>

AuthBodies == {body \in Bodies : body.method = "tools/call"}

RoutesNext ==
  \/ \E cred \in AllCredentials :
       Health(cred) /\ UNCHANGED <<flightVars, tokenVars, sessionVars, pollVars, riskVars, toolVars>>
  \/ \E cred \in AllCredentials :
       TestDataverse(cred) /\ UNCHANGED <<flightVars, sessionVars, pollVars, riskVars>>
  \/ ToolExchangeResponse /\ UNCHANGED <<flightVars, sessionVars, authVars>>
  \/ TokenSettled /\ UNCHANGED <<flightVars, sessionVars, authVars>>
  \/ \E o \in StoreOutcomes :
       StoreResponse(o, "") /\ UNCHANGED <<flightVars, sessionVars, authVars>>
  \/ TestDataverseDone /\ UNCHANGED <<flightVars, tokenVars, sessionVars, pollVars, riskVars>>
  \/ \E body \in AuthBodies, cred \in AllCredentials :
       /\ tool.pc = "idle"
       /\ PostMcp(NoHeader, body, cred) /\ McpServed("POST /mcp", cred)
       /\ UNCHANGED <<flightVars, tokenVars, pollVars, riskVars, toolVars>>
  \/ \E cred \in AllCredentials :
       /\ tool.pc = "idle"
       /\ GetMcp(NoHeader, cred) /\ McpServed("GET /mcp", cred)
       /\ UNCHANGED <<flightVars, tokenVars, pollVars, riskVars, toolVars>>
  \/ \E cred \in AllCredentials :
       /\ tool.pc = "idle"
       /\ DeleteMcp(NoHeader, cred) /\ McpServed("DELETE /mcp", cred)
       /\ UNCHANGED <<flightVars, tokenVars, pollVars, riskVars, toolVars>>
(***************************************************************************)
(* ALL HANDLERS: every caller of the record store in one specification:    *)
(* the ten tools, /test-dataverse and the /mcp routes of a client that     *)
(* sends no secret to a server that has none configured.                   *)
(***************************************************************************)
NoCarrier == Carriers(<<>>, <<>>, <<>>)

CallsNext ==
  \/ ToolsNext
  \/ TestDataverse(NoCarrier) /\ UNCHANGED <<flightVars, sessionVars, pollVars, riskVars>>
  \/ TestDataverseDone /\ UNCHANGED <<flightVars, tokenVars, sessionVars, pollVars, riskVars>>
  \/ \E body \in AuthBodies :
       /\ tool.pc = "idle"
       /\ PostMcp(NoHeader, body, NoCarrier) /\ UNCHANGED exceptSession
  \/ /\ tool.pc = "idle"
     /\ GetMcp(NoHeader, NoCarrier) /\ UNCHANGED exceptSession
  \/ /\ tool.pc = "idle"
     /\ DeleteMcp(NoHeader, NoCarrier) /\ UNCHANGED exceptSession

(***************************************************************************)
(* THE GATE: a server with a secret configured, and a client that sends    *)
(* requests with the right secret, a wrong one or none to the protected    *)
(* routes: initialize requests, requests on live and on unknown session    *)
(* ids, and /test-dataverse.                                               *)
(***************************************************************************)
SessionSecured ==
  /\ API_KEY = GoodKey
  /\ streamableTransports = <<>>
  /\ transports = <<>>
  /\ closed = {}
  /\ last = NoRequest

\* The client with the right secret stops posting once MaxClientSessions
\* transports exist and stops probing /test-dataverse once MaxProbes token
\* exchanges have been made; it addresses the sessions that were minted.
GateHeaders == {NoHeader} \cup {IdHeader(s) : s \in Minted}
GateBodies == {body \in Bodies : IsInitializeRequest(body) \/ body.method = "tools/call"}

GateNext ==
  \/ \E hdr \in GateHeaders, body \in GateBodies, cred \in Credentials :
       /\ tool.pc = "idle"
       /\ ValidateApiKey(API_KEY, cred) = "next" => Len(transports) < MaxClientSessions
       /\ PostMcp(hdr, body, cred) /\ UNCHANGED exceptSession
  \/ \E hdr \in GateHeaders, cred \in Credentials :
       /\ tool.pc = "idle"
       /\ GetMcp(hdr, cred) /\ UNCHANGED exceptSession
  \/ \E hdr \in GateHeaders, cred \in Credentials :
       /\ tool.pc = "idle"
       /\ DeleteMcp(hdr, cred) /\ UNCHANGED exceptSession
  \/ \E cred \in Credentials :
       /\ ValidateApiKey(API_KEY, cred) = "next" => exchanges < MaxProbes
       /\ TestDataverse(cred) /\ UNCHANGED <<flightVars, sessionVars, pollVars, riskVars>>
  \/ ToolExchangeResponse /\ UNCHANGED <<flightVars, sessionVars, authVars>>
  \/ TokenSettled /\ UNCHANGED <<flightVars, sessionVars, authVars>>
  \/ \E o \in StoreOutcomes :
       StoreResponse(o, "") /\ UNCHANGED <<flightVars, sessionVars, authVars>>
  \/ TestDataverseDone /\ UNCHANGED <<flightVars, tokenVars, sessionVars, pollVars, riskVars>>

(***************************************************************************)
(* REQUESTS IN FLIGHT: tools/call requests on live sessions, each handed   *)
(* to its session's transport with its own res object and running its tool *)
(* handler concurrently with the others.  Request r runs getDataverseToken *)
(* as caller r of the credential cache; requests are numbered in arrival   *)
(* order.  The server has no secret configured.                            *)
(***************************************************************************)
\* The res object Express created for request r, handed over with req.
ResOf_Shared(r) == 1
ResOf(r) == r

NoFlight == [sid |-> 0, t |-> 0, res |-> 0, tool |-> IdleTool, sent |-> FALSE]

\* req: the requests; res: what was written to each res object; store: the
\* requests in the order their record-store request was issued.
IdleFlights ==
  [req |-> [r \in Callers |-> NoFlight], res |-> [r \in Callers |-> <<>>], store |-> <<>>]

FlightIdle == flights = IdleFlights

\* The tool calls the requests carry: status updates in one client; in the
\* other a document read by the first request and company searches by the
\* requests that arrive while it runs.
UpdateCall ==
  [name |-> "update_customer_status",
   args |-> [NoArgs EXCEPT !.customerId = Guid, !.status = 2]]
ReadCall ==
  [name |-> "read_document_content", args |-> [NoArgs EXCEPT !.documentId = Guid]]
SearchCall == [name |-> "search_company", args |-> NoArgs]
WaitCalls(r) == IF r = 1 THEN {ReadCall} ELSE {SearchCall}

\* What the record store answers a request in flight.
FlightStoreOutcomes ==
  {o \in StoreOutcomes : o.kind = "http" /\ o.status \in {200, 500} /\ o.rows = 1 /\ o.fileContent}

\* What the GLEIF API answers a request in flight, and what the analysis
\* provider reports to one.
FlightFetchOutcomes ==
  {o \in FetchOutcomes : o.kind = "threw" \/ (o.status = 200 /\ o.wellFormed)}
FlightPollBodies == {res \in ToolPollBodies : res.status \in {"running", "succeeded"}}

Arrived(r) == flights.req[r] # NoFlight
Running(r) == Arrived(r) /\ ~flights.req[r].sent
SessionClosed(f) == f.sid \in closed

\* await suspends only the handler that executes it: at each of its awaits
\* (and at its end) a handler has given the event loop back.
Parked_SleepBlocks(f) == ~(f.tool.pc = "extract" /\ poll.pc = "waiting")
Parked(f) == f.tool.pc \in {"idle", "token", "store", "fetch", "extract", "returned", "threw"}
EventLoopFree == \A q \in Callers : Parked(flights.req[q])

\* POST /mcp with a known session id: transport.handleRequest(req, res,
\* req.body) passes the call to the tool handler, which runs to its first await.
Arrive(r, s, call) ==
  /\ EventLoopFree
  /\ ValidateApiKey(API_KEY, NoCarrier) = "next"
  /\ ~Arrived(r)
  /\ \A q \in Callers : q < r => Arrived(q)
  /\ KnownSession(streamableTransports, IdHeader(s))
  /\ flights' = [flights EXCEPT !.req[r] =
       [sid |-> s, t |-> GetTransport(streamableTransports, IdHeader(s)),
        res |-> ResOf(r), tool |-> Entry(call.name, call.args), sent |-> FALSE]]
  /\ IF flights'.req[r].tool.pc = "token"
       THEN GetTokenCall(r)
       ELSE UNCHANGED tokenVars
  /\ UNCHANGED <<sessionVars, pollVars>>

\* The identity provider answers the exchange of request r.
FlightExchangeResponse(r) ==
  /\ EventLoopFree
  /\ flights.req[r].tool.pc = "token"
  /\ ExchangeResponse(r)
  /\ UNCHANGED <<flights, sessionVars, pollVars>>

\* getDataverseToken of request r has settled: the record-store request is
\* issued, or the error leaves callDataverse.
FlightTokenSettled(r) ==
  /\ EventLoopFree
  /\ flights.req[r].tool.pc = "token"
  /\ callers[r].pc \in {"returned", "threw"}
  /\ LET t == flights.req[r].tool IN
     IF callers[r].pc = "threw"
       THEN flights' = [flights EXCEPT
                          !.req[r].tool = Raise(t, "Failed to get Dataverse token")]
       ELSE flights' = [flights EXCEPT
                          !.req[r].tool = [t EXCEPT !.pc = "store", !.calls = Append(@, t.method)],
                          !.store = Append(@, r)]
  /\ CallerDone(r)
  /\ UNCHANGED <<sessionVars, pollVars>>

\* The record store answers request r.
FlightStoreResponse(r, o) ==
  /\ EventLoopFree
  /\ flights.req[r].tool.pc = "store"
  /\ flights' = [flights EXCEPT !.req[r].tool = StoreResult(@, o)]
  /\ IF flights'.req[r].tool.pc = "extract"
       THEN ExtractCall("")
       ELSE UNCHANGED pollVars
  /\ UNCHANGED <<tokenVars, sessionVars>>

\* extractTextFromDocument of request r runs on; the end of a one-second
\* wait is the timer's own step.
FlightExtractStep(r) ==
  /\ flights.req[r].tool.pc = "extract"
  /\ \/ EventLoopFree /\ SubmitResponse(TRUE, TRUE)
     \/ TimerFired
     \/ EventLoopFree /\ \E res \in FlightPollBodies : PollResponse(TRUE, res)
  /\ UNCHANGED <<flights, tokenVars, sessionVars>>

FlightExtractSettled(r) ==
  /\ EventLoopFree
  /\ flights.req[r].tool.pc = "extract"
  /\ poll.pc \in {"returned", "threw"}
  /\ flights' = [flights EXCEPT !.req[r].tool =
       IF poll.pc = "threw" THEN Raise(@, poll.out.kind) ELSE Return(@, "result", "json")]
  /\ poll' = IdlePoll
  /\ UNCHANGED <<DOC_INTELLIGENCE_KEY, tokenVars, sessionVars>>

\* The GLEIF API answers the fetch of request r.
FlightFetchResponse(r, o) ==
  /\ EventLoopFree
  /\ flights.req[r].tool.pc = "fetch"
  /\ flights' = [flights EXCEPT !.req[r].tool = FetchResult(@, o)]
  /\ UNCHANGED <<tokenVars, sessionVars, pollVars>>

\* The handler of request r has ended and its transport takes the outcome:
\* it is written to the res object handed over with the request, unless the
\* transport has been closed meanwhile (its response streams are ended).
Deliver_EvenIfClosed(f, r) ==
  [flights EXCEPT !.req[r].sent = TRUE,
                  !.res[f.res] = Append(@, [of |-> r, kind |-> f.tool.out.kind])]
Deliver(f, r) ==
  IF SessionClosed(f)
    THEN [flights EXCEPT !.req[r].sent = TRUE]
    ELSE [flights EXCEPT !.req[r].sent = TRUE,
                         !.res[f.res] = Append(@, [of |-> r, kind |-> f.tool.out.kind])]

FlightSettled(r) ==
  /\ EventLoopFree
  /\ Running(r)
  /\ flights.req[r].tool.pc \in {"returned", "threw"}
  /\ flights' = Deliver(flights.req[r], r)
  /\ UNCHANGED <<tokenVars, sessionVars, pollVars>>

InitializeBody == [method |-> "initialize", params |-> TRUE]

FlightNext ==
  \/ /\ EventLoopFree
     /\ Len(transports) < MaxClientSessions
     /\ PostMcp(NoHeader, InitializeBody, NoCarrier) /\ UNCHANGED exceptSession
  \/ \E s \in Minted :
       /\ EventLoopFree
       /\ DeleteMcp(IdHeader(s), NoCarrier) /\ UNCHANGED exceptSession
  \/ \E t \in Created :
       /\ EventLoopFree
       /\ TransportClosed(t) /\ UNCHANGED exceptSession
  \/ \E r \in Callers, s \in Minted :
       Arrive(r, s, UpdateCall) /\ UNCHANGED <<riskVars, toolVars, authVars>>
  \/ \E r \in Callers :
       FlightExchangeResponse(r) /\ UNCHANGED <<riskVars, toolVars, authVars>>
  \/ \E r \in Callers :
       FlightTokenSettled(r) /\ UNCHANGED <<riskVars, toolVars, authVars>>
  \/ \E r \in Callers, o \in FlightStoreOutcomes :
       FlightStoreResponse(r, o) /\ UNCHANGED <<riskVars, toolVars, authVars>>
  \/ \E r \in Callers :
       FlightSettled(r) /\ UNCHANGED <<riskVars, toolVars, authVars>>

WaitNext ==
  \/ /\ EventLoopFree
     /\ PostMcp(NoHeader, InitializeBody, NoCarrier) /\ UNCHANGED exceptSession
  \/ \E r \in Callers, s \in Minted : \E call \in WaitCalls(r) :
       /\ r <= MaxInFlight
       /\ Arrive(r, s, call) /\ UNCHANGED <<riskVars, toolVars, authVars>>
  \/ \E r \in Callers :
       FlightExchangeResponse(r) /\ UNCHANGED <<riskVars, toolVars, authVars>>
  \/ \E r \in Callers :
       FlightTokenSettled(r) /\ UNCHANGED <<riskVars, toolVars, authVars>>
  \/ \E r \in Callers, o \in FlightStoreOutcomes :
       FlightStoreResponse(r, o) /\ UNCHANGED <<riskVars, toolVars, authVars>>
  \/ \E r \in Callers :
       FlightExtractStep(r) /\ UNCHANGED <<riskVars, toolVars, authVars>>
  \/ \E r \in Callers :
       FlightExtractSettled(r) /\ UNCHANGED <<riskVars, toolVars, authVars>>
  \/ \E r \in Callers, o \in FlightFetchOutcomes :
       FlightFetchResponse(r, o) /\ UNCHANGED <<riskVars, toolVars, authVars>>
  \/ \E r \in Callers :
       FlightSettled(r) /\ UNCHANGED <<riskVars, toolVars, authVars>>

(***************************************************************************)
(* CLAIMS: credential cache (checked under SpecToken)                      *)
(***************************************************************************)
Fetching == {c \in Callers : callers[c].pc = "fetching"}

\* C1 (as claimed): callers that invoke getDataverseToken while an exchange
\* is outstanding share it, so at most one token-exchange request is ever
\* outstanding and callers whose exchanges overlapped hold the same token.
C1_SingleFlight ==
  /\ Cardinality(Fetching) <= 1
  /\ \A c, d \in Fetching : callers[c].req = callers[d].req

\* C8: a call made while a token is cached and the clock is more than
\* 5 minutes before its expiry returns that token, issues no exchange and
\* leaves the cached token and expiry as they were.
C8_FreshCacheHit ==
  [][\A c \in Callers :
       ( /\ callers[c].pc = "idle" /\ callers'[c].pc # "idle"
         /\ dataverseToken # NoToken
         /\ tokenExpiry - now > 5 * 60 * 1000 )
       => ( /\ callers'[c].pc = "returned"
            /\ callers'[c].ret = dataverseToken
            /\ callers'[c].attempts = 0
            /\ exchanges' = exchanges
            /\ dataverseToken' = dataverseToken
            /\ tokenExpiry' = tokenExpiry )]_vars

\* A call was answered from the cache after an earlier exchange filled it.
C8_Witness ==
  \E c \in Callers :
    /\ callers[c].pc = "returned" /\ callers[c].attempts = 0
    /\ callers[c].ret = dataverseToken /\ exchanges >= 1
    /\ tokenExpiry - now > 5 * 60 * 1000

\* C9: a failed exchange makes the invocation throw after its single
\* exchange request: no further request is issued by that step, and no
\* token (in particular not the cached one) is returned.
C9_FailurePropagates ==
  [][\A c \in Callers :
       (callers[c].pc = "fetching" /\ callers'[c].resp = "fail")
       => ( /\ callers'[c].pc = "threw"
            /\ callers'[c].ret = NoToken
            /\ callers'[c].attempts = 1
            /\ exchanges' = exchanges
            /\ dataverseToken' = dataverseToken
            /\ tokenExpiry' = tokenExpiry )]_vars

\* An exchange failed while a token of an earlier exchange was still cached.
C9_Witness ==
  \E c \in Callers :
    /\ callers[c].pc = "threw" /\ callers[c].resp = "fail"
    /\ dataverseToken # NoToken


\* C29: the credential is created lazily and never destroyed.  An exchange
\* request is issued only by a getDataverseToken call that finds no valid
\* token (so none before the first call, when the slot is still empty);
\* once a token is cached the slot is never emptied; token and expiry
\* change only when an exchange succeeds, and then to that exchange's token;
\* a failed exchange leaves both as they were.
C29_LazyNeverCleared ==
  /\ [](exchanges = 0 => dataverseToken = NoToken /\ tokenExpiry = 0)
  /\ [][ /\ exchanges' # exchanges
            => \E c \in Callers :
                 /\ callers[c].pc = "idle" /\ callers'[c].pc = "fetching"
                 /\ ~CacheValid(dataverseToken, tokenExpiry, now)
                 /\ exchanges' = exchanges + 1
         /\ dataverseToken # NoToken => dataverseToken' # NoToken
         /\ <<dataverseToken, tokenExpiry>>' # <<dataverseToken, tokenExpiry>>
            => \E c \in Callers :
                 /\ callers[c].pc = "fetching" /\ callers'[c].resp = "ok"
                 /\ dataverseToken' = callers'[c].ret
         /\ \A c \in Callers :
              (callers[c].pc = "fetching" /\ callers'[c].resp = "fail")
              => <<dataverseToken, tokenExpiry>>' = <<dataverseToken, tokenExpiry>>
     ]_vars

\* The third exchange failed and the token of the second is still cached.
C29_Witness ==
  /\ dataverseToken = 2 /\ exchanges = 3
  /\ \E c \in Callers :
       callers[c].pc = "threw" /\ callers[c].req = 3 /\ callers[c].resp = "fail"

\* C32: the cached token and the cached expiry are written by one step,
\* from one successful exchange response: a step that changes either one
\* is the step in which an exchange is answered 2xx, and it sets the token
\* to that exchange's token and the expiry to the clock plus that
\* response's lifetime; the slot is empty exactly when the expiry is unset.
\* Each successful exchange overwrites the cache when it completes, so
\* after overlapping exchanges the cache holds what the last one to
\* complete brought, also when that exchange was started first.
C32_WrittenTogetherLastWins ==
  /\ []((dataverseToken = NoToken) <=> (tokenExpiry = 0))
  /\ [][ /\ <<dataverseToken, tokenExpiry>>' # <<dataverseToken, tokenExpiry>>
            => \E c \in Callers, e \in ExpiresInChoices :
                 /\ callers[c].pc = "fetching" /\ callers'[c].resp = "ok"
                 /\ dataverseToken' = callers[c].req
                 /\ tokenExpiry' = now + e * 1000
         /\ \A c \in Callers :
              (callers[c].pc = "fetching" /\ callers'[c].resp = "ok")
              => /\ dataverseToken' = callers[c].req
                 /\ tokenExpiry' > now
     ]_vars

\* Two exchanges overlapped; the second was answered first and the first,
\* answered last, is the one whose token is cached.
C32_Witness ==
  /\ dataverseToken = 1 /\ exchanges = 2
  /\ \E c, d \in Callers :
       /\ callers[c].pc = "returned" /\ callers[c].req = 1 /\ callers[c].resp = "ok"
       /\ callers[d].pc = "returned" /\ callers[d].req = 2 /\ callers[d].resp = "ok"

\* C33: a getDataverseToken call is answered from the cache only when the
\* clock is strictly less than the cached expiry minus 5 minutes; a call
\* made when the clock has reached expiry minus 5 minutes (exactly or
\* beyond, which is every moment of a token granted for 5 minutes or less)
\* issues a new exchange request.
C33_StrictFiveMinuteMargin ==
  [][\A c \in Callers :
       (callers[c].pc = "idle" /\ callers'[c].pc # "idle") =>
         /\ (callers'[c].pc = "returned")
              => (dataverseToken # NoToken /\ now < tokenExpiry - 5 * 60 * 1000)
         /\ (dataverseToken # NoToken /\ now >= tokenExpiry - 5 * 60 * 1000)
              => ( /\ callers'[c].pc = "fetching"
                   /\ callers'[c].req = exchanges + 1
                   /\ exchanges' = exchanges + 1 )
    ]_vars

\* A call made exactly 5 minutes before the cached token expires started
\* an exchange of its own.
C33_Witness ==
  \E c \in Callers :
    /\ callers[c].pc = "fetching" /\ callers[c].req = exchanges
    /\ dataverseToken # NoToken /\ dataverseToken < exchanges
    /\ now > 0 /\ now = tokenExpiry - 5 * 60 * 1000
    /\ \A d \in Callers \ {c} : callers[d].pc = "idle"
(***************************************************************************)
(* CLAIMS: session registry (checked under SpecSession)                    *)
(* Every step that is not a stuttering step handles one request or close   *)
(* callback and records it in last'; the claims are about the requests     *)
(* that validateApiKey passed on to the route handler.                     *)
(***************************************************************************)
Registry == DOMAIN streamableTransports
Routed(route) == last'.route = route /\ last'.auth = "next"
RegistryUnchanged ==
  /\ streamableTransports' = streamableTransports
  /\ transports' = transports
TransportOf(sid) == CHOOSE t \in Created : transports[t].sessionId = sid

\* C2 (as claimed): a POST that supplies any mcp-session-id value that is
\* not in the registry gets the 400 error, whatever its method, and mints
\* no session.
C2_AnySuppliedUnknownIdRejected ==
  [][( /\ Routed("POST")
       /\ last'.hdr.kind # "absent"
       /\ last'.hdr.id \notin Registry )
     => (last'.status = 400 /\ last'.handedTo = 0 /\ RegistryUnchanged)]_vars

\* C2 (amended): a POST that supplies a non-empty mcp-session-id that is not
\* in the registry gets the 400 error, whatever its method, and mints no
\* session.
C2_UnknownIdRejected ==
  [][( /\ Routed("POST")
       /\ last'.hdr.kind = "id"
       /\ last'.hdr.id \notin Registry )
     => (last'.status = 400 /\ last'.handedTo = 0 /\ RegistryUnchanged)]_vars

\* An initialize POST carrying an unknown id was rejected while a session
\* was live.
C2_Witness ==
  /\ last.route = "POST" /\ last.auth = "next" /\ last.status = 400
  /\ last.hdr.kind = "id" /\ last.hdr.id \notin Registry
  /\ IsInitializeRequest(last.body)
  /\ Registry # {}

\* C3: a POST without a session identifier gets the 400 error and adds no
\* entry unless it is an initialize request; an initialize request gets a
\* new transport, and when that transport accepts it exactly one entry,
\* under an identifier that was not in the registry, is added for it.
C3_InitializeMintsOne ==
  [][( Routed("POST") /\ last'.hdr.kind = "absent" )
     => IF IsInitializeRequest(last'.body)
          THEN /\ last'.status # 400
               /\ last'.handedTo = Len(transports) + 1
               /\ Len(transports') = Len(transports) + 1
               /\ IF last'.sdk = "ok"
                    THEN \E sid \in SessionIds \ Registry :
                           /\ DOMAIN streamableTransports' = Registry \cup {sid}
                           /\ streamableTransports'[sid] = last'.handedTo
                           /\ \A s \in Registry :
                                streamableTransports'[s] = streamableTransports[s]
                    ELSE streamableTransports' = streamableTransports
          ELSE last'.status = 400 /\ last'.handedTo = 0 /\ RegistryUnchanged]_vars

\* A second session was minted by an initialize POST without identifier.
C3_Witness ==
  /\ last.route = "POST" /\ last.auth = "next" /\ last.hdr.kind = "absent"
  /\ last.sdk = "ok" /\ last.handedTo = 2
  /\ Cardinality(Registry) = 2

\* C4: from the initialize response that returned S until S is closed,
\* every POST carrying S is handed to the transport created for S and is
\* not answered with the 400 error.
C4_KnownSessionRouted ==
  [][( /\ Routed("POST")
       /\ last'.hdr.kind = "id"
       /\ last'.hdr.id \in Minted
       /\ last'.hdr.id \notin closed )
     => ( /\ last'.status # 400
          /\ last'.handedTo = TransportOf(last'.hdr.id)
          /\ RegistryUnchanged )]_vars

\* With two sessions live, a tools/call POST on the second one reached the
\* second transport.
C4_Witness ==
  /\ last.route = "POST" /\ last.auth = "next" /\ last.body.method = "tools/call"
  /\ last.hdr.kind = "id" /\ last.handedTo = 2 /\ last.sdk = "ok"
  /\ Cardinality(Registry) = 2

\* C5: once a DELETE on S has been carried out by its transport, or the
\* close callback of S's transport has run, S is not in the registry, and
\* every later POST, GET or DELETE carrying S gets the 400 error.
C5_ClosedIsTerminal ==
  [][ /\ ( /\ last' # last
           /\ \/ last'.route = "close"
              \/ last'.route = "DELETE" /\ last'.sdk = "ok"
           /\ last'.hdr.kind = "id" )
         => last'.hdr.id \notin DOMAIN streamableTransports'
      /\ closed \subseteq closed'
      /\ closed' \cap DOMAIN streamableTransports' = {}
      /\ ( /\ last' # last
           /\ last'.route \in {"POST", "GET", "DELETE"} /\ last'.auth = "next"
           /\ last'.hdr.kind = "id" /\ last'.hdr.id \in closed )
         => (last'.status = 400 /\ last'.handedTo = 0 /\ RegistryUnchanged) ]_vars

\* A POST carrying a session id that was terminated by DELETE got the 400.
C5_Witness ==
  /\ last.route = "POST" /\ last.auth = "next" /\ last.status = 400
  /\ last.hdr.kind = "id" /\ last.hdr.id \in closed
  /\ Registry # {}

\* C6: the registry holds one transport per identifier and that transport
\* has this identifier, no two transports were given the same identifier,
\* and an identifier whose session was closed is not in the registry.
C6_UniqueIdentifiers ==
  /\ \A t1, t2 \in Created :
       (t1 # t2 /\ transports[t1].sessionId # 0)
       => transports[t1].sessionId # transports[t2].sessionId
  /\ \A s \in Registry :
       /\ streamableTransports[s] \in Created
       /\ transports[streamableTransports[s]].sessionId = s
  /\ closed \cap Registry = {}

\* Two identifiers were minted, one of them is closed, the other live.
C6_Witness ==
  /\ Cardinality(Minted) = 2
  /\ Cardinality(closed) = 1
  /\ Cardinality(Registry) = 1

\* C7: a GET or DELETE whose session identifier is missing or not in the
\* registry gets the 400 error, reaches no transport and changes nothing;
\* with a known identifier it is handed to that session's transport.
C7_GetDeleteGuard ==
  [][( last' # last /\ last'.route \in {"GET", "DELETE"} /\ last'.auth = "next" )
     => IF last'.hdr.kind # "id" \/ last'.hdr.id \notin Registry
          THEN last'.status = 400 /\ last'.handedTo = 0 /\ RegistryUnchanged
          ELSE /\ last'.status # 400
               /\ last'.handedTo = streamableTransports[last'.hdr.id]
               /\ transports[last'.handedTo].sessionId = last'.hdr.id ]_vars

\* A DELETE with an unknown identifier was rejected while a session was live.
C7_Witness ==
  /\ last.route = "DELETE" /\ last.auth = "next" /\ last.status = 400
  /\ last.hdr.kind = "id" /\ last.hdr.id \notin closed
  /\ Registry # {}


\* C38: every registry entry is keyed by the session id of the transport
\* it holds.  An entry is added only by the step in which a newly created
\* transport accepts its initialize request (its session-initialized
\* callback), and what is added is that transport under its own id; an
\* entry is removed only by a step in which a transport's close callback
\* runs (after a DELETE it carried out, or a close of its own), and what is
\* removed is the entry of that transport's session and no other; the
\* other entries stay as they are.
C38_RegistryWrittenByCallbacksOnly ==
  /\ [](\A s \in Registry : transports[streamableTransports[s]].sessionId = s)
  /\ [][ /\ DOMAIN streamableTransports' \ Registry # {}
            => ( /\ Routed("POST") /\ last'.sdk = "ok"
                 /\ last'.handedTo = Len(transports) + 1
                 /\ DOMAIN streamableTransports' \ Registry
                      = {transports'[last'.handedTo].sessionId}
                 /\ streamableTransports'[transports'[last'.handedTo].sessionId]
                      = last'.handedTo
                 /\ Registry \subseteq DOMAIN streamableTransports' )
         /\ Registry \ DOMAIN streamableTransports' # {}
            => ( /\ \/ last'.route = "close"
                    \/ Routed("DELETE") /\ last'.sdk = "ok"
                 /\ Registry \ DOMAIN streamableTransports'
                      = {transports[last'.handedTo].sessionId}
                 /\ streamableTransports[transports[last'.handedTo].sessionId]
                      = last'.handedTo
                 /\ DOMAIN streamableTransports' \subseteq Registry )
         /\ \A s \in Registry \cap DOMAIN streamableTransports' :
              streamableTransports'[s] = streamableTransports[s]
     ]_vars

\* Of two live sessions the first was closed from its transport's side:
\* its entry is gone and the entry of the second is still there.
C38_Witness ==
  /\ last.route = "close" /\ last.handedTo = 1 /\ last.hdr.kind = "id"
  /\ last.hdr.id \in closed
  /\ Cardinality(Minted) = 2
  /\ \E s \in Registry : Registry = {s} /\ streamableTransports[s] = 2
(***************************************************************************)
(* CLAIMS: document-analysis poller (checked under SpecPoll)               *)
(***************************************************************************)
\* C10: when a status poll reports succeeded, the invocation returns the
\* extracted result right after that poll (the k-th poll of the k-th loop
\* round, k in 1..30, the 30th included), and once it has returned no
\* further poll is issued.
C10_SucceededReturnsAtOnce ==
  [][ /\ ( poll.pc = "polling" /\ poll'.result.status = "succeeded" )
         => ( /\ poll'.pc = "returned"
              /\ poll'.out = Extracted(poll'.result)
              /\ poll'.polls = poll.i + 1
              /\ poll'.polls = poll.polls
              /\ poll'.polls \in 1..MaxAttempts )
      /\ poll.pc = "returned" => poll' = poll ]_vars

\* The analysis was reported succeeded on the 30th poll, after 29
\* non-terminal reports, and its text was returned.
C10_Witness ==
  /\ poll.pc = "returned" /\ poll.polls = MaxAttempts
  /\ poll.out.kind = "result" /\ poll.out.content = "Invoice 42"

\* C11: when the provider reports "failed" on poll attempt k (1..30), the
\* invocation throws "Analysis failed" carrying the provider's error detail
\* in the very step that receives the report: exactly k polls were issued,
\* and neither a further wait nor a further poll ever follows.
C11_FailedThrowsAtOnce ==
  [][ /\ ( /\ poll.pc = "polling" /\ poll'.pc # "polling"
           /\ poll'.out.kind # "Polling error"
           /\ poll'.result.status = "failed" )
         => ( /\ poll'.pc = "threw"
              /\ poll'.out.kind = "Analysis failed"
              /\ poll'.out.detail = poll'.result.error
              /\ poll'.polls = poll.i + 1
              /\ poll'.polls = poll.polls
              /\ poll'.waits = poll.waits
              /\ poll'.polls \in 1..MaxAttempts )
      /\ poll.pc = "threw" => poll' = poll ]_vars

C11_Witness ==
  /\ poll.pc = "threw" /\ poll.out.kind = "Analysis failed"
  /\ poll.out.detail = "InvalidContent" /\ poll.polls = 7

Terminated == poll.pc \in {"returned", "threw"}
NonTerminal(status) == status \notin {"succeeded", "failed"}

\* C12: no invocation issues more than 30 polls; when the 30th poll is
\* answered with a status that is neither "succeeded" nor "failed" the
\* invocation throws "Analysis timed out" after exactly 30 polls, and that
\* error arises in no other way; every invocation that was started ends
\* (returns or throws) provided each provider call is answered.
C12_TimeoutAfterThirty ==
  /\ [](poll.polls <= MaxAttempts)
  /\ [](poll.out.kind = "Analysis timed out"
          => /\ poll.pc = "threw" /\ poll.polls = MaxAttempts
             /\ poll.waits = MaxAttempts /\ NonTerminal(poll.result.status))
  /\ [][ ( /\ poll.pc = "polling" /\ poll'.pc # "polling"
           /\ poll.polls = MaxAttempts
           /\ poll'.out.kind # "Polling error"
           /\ NonTerminal(poll'.result.status) )
         => ( /\ poll'.pc = "threw" /\ poll'.out.kind = "Analysis timed out"
              /\ poll'.polls = MaxAttempts ) ]_vars
  /\ (poll.pc # "idle") ~> Terminated

C12_Witness ==
  /\ poll.pc = "threw" /\ poll.out.kind = "Analysis timed out"
  /\ poll.polls = MaxAttempts /\ poll.result.status = "running"

\* The stage of the analysis as the invocation knows it: result.status of the
\* last report it stored, or TimedOut once the loop ran out.  notStarted
\* (queued), running and "no report yet" are the stage before the end.
Stage(p) ==
  IF p.out.kind = "Analysis timed out" THEN "TimedOut"
  ELSE IF p.result.status = "succeeded" THEN "Succeeded"
  ELSE IF p.result.status = "failed" THEN "Failed"
  ELSE "Pending"

\* C27: within one invocation the tracked stage only moves forward, from
\* queued/running to Succeeded, Failed or TimedOut: every step that changes
\* it starts from the pending stage, so a terminal stage never changes and
\* nothing is polled after it; a result payload is returned only when the
\* final stage is Succeeded, and Failed and TimedOut end in a throw.
C27_StatusOnlyMovesForward ==
  /\ [][ /\ Stage(poll') # Stage(poll) => Stage(poll) = "Pending"
         /\ Stage(poll) # "Pending" => poll' = poll ]_vars
  /\ [](poll.out.kind = "result" <=> poll.pc = "returned")
  /\ [](poll.pc = "returned" => Stage(poll) = "Succeeded")
  /\ [](Stage(poll) \in {"Failed", "TimedOut"} => poll.pc = "threw")

\* Two running reports, then succeeded on the third poll: the text is returned.
C27_Witness ==
  /\ poll.pc = "returned" /\ Stage(poll) = "Succeeded"
  /\ poll.polls = 3 /\ poll.out.content = "Invoice 42"


\* C35: a status poll answered with a non-success HTTP status makes the
\* invocation throw "Polling error" in the step that receives the answer,
\* whatever the body says and however many attempts remain: no further
\* wait or poll follows, and the last stored report is left as it was.
C35_PollHttpErrorThrowsAtOnce ==
  /\ [][ (\E res \in PollBodies : PollResponse(FALSE, res))
           => ( /\ poll'.pc = "threw" /\ poll'.out.kind = "Polling error"
                /\ poll'.polls = poll.polls /\ poll'.waits = poll.waits
                /\ poll'.result = poll.result )
         ]_vars
  /\ [](poll.out.kind = "Polling error"
          => poll.pc = "threw" /\ poll.polls = poll.i + 1 /\ poll.polls \in 1..MaxAttempts)
  /\ [][poll.out.kind = "Polling error" => poll' = poll]_vars

\* The fourth poll was answered with an error status after three running
\* reports: the invocation threw with 26 attempts left.
C35_Witness ==
  /\ poll.pc = "threw" /\ poll.out.kind = "Polling error"
  /\ poll.polls = 4 /\ poll.result.status = "running"

\* C36: every status poll follows a one-second wait of its own.  After a
\* successful submit the invocation waits before it polls for the first
\* time; a poll is issued only by the step that ends a wait, a wait starts
\* only after the submit or after a poll was answered, so waits and polls
\* alternate and are equal in number at all times; the timeout is raised
\* only after 30 waits and 30 polls.
C36_WaitBeforeEveryPoll ==
  /\ [](poll.polls = poll.waits)
  /\ [](poll.pc = "waiting" => poll.polls = poll.i)
  /\ [](poll.pc = "polling" => poll.polls = poll.i + 1)
  /\ [][ /\ poll'.polls # poll.polls
            => ( /\ poll.pc = "waiting" /\ poll'.pc = "polling"
                 /\ poll'.polls = poll.polls + 1 /\ poll'.waits = poll.waits + 1 )
         /\ poll.pc = "submitting" => poll'.pc \in {"waiting", "threw"} /\ poll'.polls = 0
         /\ (poll'.pc = "waiting" /\ poll.pc # "waiting")
            => poll.pc \in {"submitting", "polling"}
     ]_vars
  /\ [](poll.out.kind = "Analysis timed out"
          => poll.waits = MaxAttempts /\ poll.polls = MaxAttempts)

\* After the submit and two answered polls the invocation is in its third
\* wait: two waits and two polls so far.
C36_Witness ==
  /\ poll.pc = "waiting" /\ poll.i = 2 /\ poll.waits = 2 /\ poll.polls = 2
  /\ poll.result.status = "notStarted"

SubmitErrors ==
  {"Document Intelligence not configured", "Document Intelligence error", "No operation location"}

\* C37: without a configured key the invocation throws before any request
\* is sent; a rejected submit and a submit answer without Operation-Location
\* make it throw after the submit alone.  In all three cases no wait and no
\* status poll ever happens.
C37_SubmitFailuresNeverPoll ==
  /\ [](DOC_INTELLIGENCE_KEY = "" => poll.submits = 0 /\ poll.polls = 0)
  /\ [](poll.out.kind \in SubmitErrors
          => poll.pc = "threw" /\ poll.polls = 0 /\ poll.waits = 0)
  /\ [](poll.out.kind = "Document Intelligence not configured" => poll.submits = 0)
  /\ [][ /\ (poll.pc = "idle" /\ poll'.pc # "idle" /\ DOC_INTELLIGENCE_KEY = "")
            => poll'.pc = "threw" /\ poll'.out.kind = "Document Intelligence not configured"
         /\ (\E loc \in BOOLEAN : SubmitResponse(FALSE, loc))
            => poll'.pc = "threw" /\ poll'.out.kind = "Document Intelligence error"
         /\ SubmitResponse(TRUE, FALSE)
            => poll'.pc = "threw" /\ poll'.out.kind = "No operation location"
         /\ poll.out.kind \in SubmitErrors => poll' = poll
     ]_vars

\* The submit was accepted but its answer named no operation to poll.
C37_Witness ==
  /\ poll.pc = "threw" /\ poll.out.kind = "No operation location"
  /\ poll.submits = 1 /\ poll.polls = 0 /\ poll.waits = 0
(***************************************************************************)
(* CLAIMS: risk aggregator (checked under SpecRisk and SpecRiskFair)       *)
(***************************************************************************)
Distinct(seq) == Cardinality({seq[n] : n \in 1..Len(seq)})
StatusOf(c) == kyc.checks[c].status
Fetched(c) == \E n \in 1..Len(kyc.fetches) : kyc.fetches[n] = c

\* C13: the overallRisk of a returned assessment is determined by the number
\* of distinct risk factors alone: LOW for 0, MEDIUM for 1 or 2, HIGH for 3
\* or more.
C13_RiskFromFactorCount ==
  kyc.pc = "returned" =>
    /\ Distinct(kyc.riskFactors) = 0 => kyc.overallRisk = "LOW"
    /\ Distinct(kyc.riskFactors) \in {1, 2} => kyc.overallRisk = "MEDIUM"
    /\ Distinct(kyc.riskFactors) >= 3 => kyc.overallRisk = "HIGH"

C13_Witness ==
  /\ kyc.pc = "returned" /\ kyc.overallRisk = "HIGH"
  /\ Distinct(kyc.riskFactors) = 3

\* C14: whatever the earlier checks came to (exception or non-success
\* response included), every later check that its own condition admits is
\* still run: the name search always, the LEI lookup whenever an LEI code
\* was supplied, the screening whenever its key is configured; and every
\* invocation ends by returning an assessment with an overall risk level.
C14_FailuresDoNotStopLaterChecks ==
  /\ [](kyc.pc = "returned" =>
          /\ kyc.overallRisk \in {"LOW", "MEDIUM", "HIGH"}
          /\ Fetched("gleifSearch") /\ StatusOf("gleifSearch") # "absent"
          /\ kyc.leiCode # "" =>
                Fetched("leiVerification") /\ StatusOf("leiVerification") # "absent"
          /\ PERPLEXITY_API_KEY # "" =>
                Fetched("adverseMedia") /\ StatusOf("adverseMedia") # "absent")
  /\ [][kyc.pc = "returned" => kyc' = kyc]_vars
  /\ (kyc.pc # "idle") ~> (kyc.pc = "returned")

C14_Witness ==
  /\ kyc.pc = "returned"
  /\ StatusOf("gleifSearch") = "error" /\ kyc.checks["gleifSearch"].detail = "fetch failed"
  /\ StatusOf("leiVerification") = "error" /\ kyc.checks["leiVerification"].detail = "HTTP 500"
  /\ StatusOf("adverseMedia") = "completed"

\* C15 (as claimed): every returned assessment holds an entry for each of
\* the three checks, with status completed, skipped (with a reason) or
\* error (with a detail).
C15_AllThreeReported ==
  kyc.pc = "returned" =>
    \A c \in CheckNames :
      /\ StatusOf(c) \in {"completed", "skipped", "error"}
      /\ StatusOf(c) \in {"skipped", "error"} => kyc.checks[c].detail # "none"

\* The risk factors each check can push.
FactorsOf(c) ==
  CASE c = "gleifSearch" -> {"Company not found in GLEIF registry"}
    [] c = "leiVerification" ->
         {"Provided LEI not found in GLEIF database"}
           \cup {"LEI registration status: " \o rs : rs \in RegistrationStatuses}
    [] c = "adverseMedia" -> {"Adverse media findings detected"}

\* C16: a check that is recorded as error or skipped has pushed no risk
\* factor: none of the collected factors is one of its own, and there are
\* never more factors than completed checks, so the overall risk is the
\* level of the factors of the completed checks only.
C16_FailedChecksAddNoRisk ==
  /\ \A c \in CheckNames :
       StatusOf(c) \in {"error", "skipped"} =>
         \A n \in 1..Len(kyc.riskFactors) : kyc.riskFactors[n] \notin FactorsOf(c)
  /\ Len(kyc.riskFactors) <= Cardinality({c \in CheckNames : StatusOf(c) = "completed"})
  /\ \A n \in 1..Len(kyc.riskFactors) :
       \E c \in CheckNames : StatusOf(c) = "completed" /\ kyc.riskFactors[n] \in FactorsOf(c)

C16_Witness ==
  /\ kyc.pc = "returned"
  /\ StatusOf("gleifSearch") = "error" /\ kyc.checks["gleifSearch"].detail = "HTTP 404"
  /\ StatusOf("leiVerification") = "completed" /\ ~kyc.checks["leiVerification"].valid
  /\ StatusOf("adverseMedia") = "skipped"
  /\ kyc.riskFactors = <<"Provided LEI not found in GLEIF database">>
  /\ kyc.overallRisk = "MEDIUM"


\* The factors of the assessment that check c pushed.
PushedBy(c) == {n \in 1..Len(kyc.riskFactors) : kyc.riskFactors[n] \in FactorsOf(c)}

\* C34: each of the three checks has pushed at most one risk factor, so an
\* assessment holds at most 3 factors and they are pairwise distinct; an
\* assessment is HIGH only if an LEI code was supplied, the screening key
\* is configured, and each of the three checks is completed and has pushed
\* a factor.
C34_AtMostOneFactorPerCheck ==
  /\ \A c \in CheckNames : Cardinality(PushedBy(c)) <= 1
  /\ Len(kyc.riskFactors) <= 3
  /\ Distinct(kyc.riskFactors) = Len(kyc.riskFactors)
  /\ kyc.overallRisk = "HIGH" =>
       /\ kyc.leiCode # "" /\ PERPLEXITY_API_KEY # ""
       /\ \A c \in CheckNames : StatusOf(c) = "completed" /\ PushedBy(c) # {}

\* No match for the name, an LEI that is not found and red flags in the
\* screening: three factors, one per check, and HIGH.
C34_Witness ==
  /\ kyc.pc = "returned" /\ kyc.overallRisk = "HIGH"
  /\ kyc.riskFactors = <<"Company not found in GLEIF registry",
                         "Provided LEI not found in GLEIF database",
                         "Adverse media findings detected">>
(***************************************************************************)
(* CLAIMS: authentication (checked under SpecRoutes)                       *)
(***************************************************************************)
ProtectedRoutes == {"POST /mcp", "GET /mcp", "DELETE /mcp", "GET /test-dataverse"}

\* The secret an Authorization header carries: what follows "Bearer ".
BearerValue(header) ==
  IF header # <<>> /\ Head(header) = Bearer THEN Tail(header) ELSE header

\* The non-empty secrets a request carries, whatever the carrier.
Secrets(cred) ==
  {cred.xApiKey, BearerValue(cred.authorization), cred.queryKey} \ {<<>>}

Accepted == served.reached /\ served.status \notin {401, 403}
RejectedWith(status) == ~served.reached /\ served.status = status

\* C17: with a secret configured, on each of POST /mcp, GET /mcp,
\* DELETE /mcp and GET /test-dataverse a request whose only secret is the
\* configured value reaches the route handler, a request that carries only
\* other values is answered 403 and a request that carries no secret is
\* answered 401, both without reaching the handler.
C17_ThreeOutcomesOnProtectedRoutes ==
  (API_KEY # NoKey /\ served.route \in ProtectedRoutes) =>
    /\ Secrets(served.cred) = {API_KEY} => Accepted
    /\ (Secrets(served.cred) # {} /\ API_KEY \notin Secrets(served.cred))
         => RejectedWith(403)
    /\ Secrets(served.cred) = {} => RejectedWith(401)

C17_Witness ==
  /\ API_KEY = GoodKey /\ served.route = "GET /test-dataverse"
  /\ served.cred = Carriers(GoodKey, <<>>, <<>>)
  /\ served.reached /\ served.status = 200

\* Exactly one of the three carriers of the request is used.
OneCarrier(cred) ==
  Cardinality({n \in 1..3 : <<cred.xApiKey, cred.authorization, cred.queryKey>>[n] # <<>>}) = 1

\* C18: with a secret configured, a request that presents the configured
\* value through the x-api-key header alone, through Authorization: Bearer
\* alone or through the api_key query parameter alone is accepted; and a
\* request is accepted only if one of its carriers holds exactly the
\* configured value (a value in another case or another value is not).
C18_AnyCarrierExactMatch ==
  (API_KEY # NoKey /\ served.route \in ProtectedRoutes) =>
    /\ served.cred \in { Carriers(API_KEY, <<>>, <<>>),
                         Carriers(<<>>, <<Bearer>> \o API_KEY, <<>>),
                         Carriers(<<>>, <<>>, API_KEY) } => Accepted
    /\ Accepted => API_KEY \in Secrets(served.cred)
    /\ (OneCarrier(served.cred) /\ Accepted) => Secrets(served.cred) = {API_KEY}

C18_Witness ==
  /\ API_KEY = GoodKey /\ served.route = "POST /mcp"
  /\ served.cred = Carriers(<<>>, <<>>, GoodKey)
  /\ served.reached /\ served.status = 400

\* C19: with no secret configured every request to a protected route
\* reaches its handler, whatever secret it carries or omits, and /health
\* reports secured = false (and secured = true when a secret is configured).
C19_UnsecuredAcceptsAll ==
  /\ (API_KEY = NoKey /\ served.route \in ProtectedRoutes) => Accepted
  /\ served.route = "GET /health" =>
       /\ served.status = 200
       /\ served.json.secured <=> (API_KEY # NoKey)

C19_Witness ==
  /\ API_KEY = NoKey /\ served.route = "GET /test-dataverse"
  /\ served.cred = Carriers(BadKey, <<>>, <<>>)
  /\ served.reached /\ served.status = 200

\* The secret of the first carrier that holds one, in the order x-api-key,
\* Authorization, api_key.
FirstSecret(cred) ==
  IF cred.xApiKey # <<>> THEN cred.xApiKey
  ELSE IF BearerValue(cred.authorization) # <<>> THEN BearerValue(cred.authorization)
  ELSE cred.queryKey

\* C31: with a secret configured, the answer to a request to a protected
\* route depends on the first carrier that holds a secret alone (x-api-key
\* before Authorization before api_key): 403 when that secret is not the
\* configured value, even when a later carrier holds it; the handler is
\* reached when it is the configured value, whatever later carriers hold.
C31_FirstCarrierDecides ==
  (API_KEY # NoKey /\ served.route \in ProtectedRoutes) =>
    /\ FirstSecret(served.cred) = API_KEY => Accepted
    /\ FirstSecret(served.cred) \notin {<<>>, API_KEY} => RejectedWith(403)
    /\ FirstSecret(served.cred) = <<>> => RejectedWith(401)

\* A wrong x-api-key with the configured value in api_key was answered 403.
C31_Witness ==
  /\ API_KEY = GoodKey /\ served.route = "DELETE /mcp"
  /\ served.cred = Carriers(BadKey, <<>>, GoodKey)
  /\ RejectedWith(403)

(***************************************************************************)
(* CLAIMS: tool handlers (checked under SpecTools)                         *)
(***************************************************************************)
\* C20 (as claimed): no tool handler lets an exception escape: whatever
\* external call fails (token exchange, record store, registry, screening,
\* document analysis), the invocation ends by returning an envelope, never
\* by throwing.
C20_NoHandlerThrows == tool.pc # "threw"


(***************************************************************************)
(* CLAIMS: external calls of all handlers (C25 is checked under SpecCalls, *)
(* the others under SpecTools)                                             *)
(***************************************************************************)
\* The requests the running handler has sent to the record store.
StoreCalls == {n \in 1..Len(tool.calls) : tool.calls[n] \in {"GET", "PATCH"}}
Patches == {n \in StoreCalls : tool.calls[n] = "PATCH"}

\* C25: the only request that changes the record store is the PATCH of
\* update_customer_status, at most one per invocation and its only
\* record-store request; every other tool and /test-dataverse send GET
\* requests only; a step of the /mcp routes (authentication, session lookup,
\* 400 answer) sends no record-store request and starts no token exchange.
C25_OnlyUpdateStatusWrites ==
  /\ [](Patches # {} => tool.name = "update_customer_status")
  /\ [](Cardinality(Patches) <= 1)
  /\ [](tool.name = "update_customer_status" => StoreCalls = Patches)
  /\ [](Cardinality(StoreCalls) <= 1)
  /\ [][ last' # last => tool' = tool /\ UNCHANGED tokenVars ]_vars

\* update_customer_status returned after its one PATCH.
C25_Witness ==
  /\ tool.name = "update_customer_status" /\ tool.pc = "returned"
  /\ tool.calls = <<"PATCH">> /\ tool.out.kind = "result"
  /\ last.route = "POST" /\ served.route = "GET /test-dataverse"

\* The failure messages of getDataverseToken, callDataverse and fetch.
CallFailures ==
  {"Failed to get Dataverse token", "fetch failed"}
    \cup {"Dataverse API error " \o ToString(st) : st \in {500}}
    \cup {"API error " \o ToString(st) : st \in {404, 500}}
    \cup {"Document Intelligence error"}
FailureReported(t) ==
  /\ t.pc \in {"returned", "threw"}
  /\ t.out.kind \in {"error", "exception"}

\* C26: no external call is retried.  One invocation issues at most one
\* token exchange (only at its entry), at most one request to the record
\* store or to a public API of its own, at most one analysis submit, and
\* run_legal_entity_kyc fetches each of its checks at most once.  When the
\* token exchange, the record-store request, the registry or screening
\* request or the analysis submit fails, the step that sees the failure
\* issues nothing and ends the invocation with the failure in its output.
C26_NoRetry ==
  /\ [](Len(tool.calls) <= 1)
  /\ [](callers[1].attempts <= 1 /\ poll.submits <= 1)
  /\ [](Distinct(kyc.fetches) = Len(kyc.fetches))
  /\ [][ /\ exchanges' # exchanges => tool.pc = "idle" /\ exchanges' = exchanges + 1
         /\ (tool.pc = "token" /\ callers'[1].pc = "threw")
              => tool' = tool /\ exchanges' = exchanges
         /\ (tool.pc = "token" /\ callers[1].pc = "threw")
              => /\ FailureReported(tool') /\ tool'.calls = tool.calls
                 /\ callers'[1].pc = "idle" /\ exchanges' = exchanges
         /\ (tool.pc \in {"store", "fetch"} /\ tool' # tool)
              => /\ tool'.calls = tool.calls /\ UNCHANGED tokenVars
                 /\ tool'.pc \in {"returned", "threw", "extract"}
         /\ (poll.pc = "submitting" /\ poll'.pc = "threw")
              => poll'.submits = 1 /\ tool' = tool
         /\ (tool.pc = "extract" /\ poll.pc = "threw" /\ tool' # tool)
              => FailureReported(tool') /\ tool'.calls = tool.calls
     ]_vars
  /\ [](\A msg \in CallFailures :
          tool.out.text \in {msg, ErrorText(tool.name, msg)} => FailureReported(tool))

\* The PATCH of update_customer_status was answered with an error status:
\* one exchange, one request, and the failure left the handler.
C26_Witness ==
  /\ tool.name = "update_customer_status" /\ tool.calls = <<"PATCH">>
  /\ tool.out.text = "Dataverse API error 500" /\ FailureReported(tool)
  /\ exchanges = 1

\* read_document_content got its document from the record store.
DocumentFound ==
  /\ tool.name = "read_document_content" /\ tool.pc = "returned"
  /\ Len(tool.calls) = 1 /\ tool.out.text # "No document found"

\* C28 (as claimed): in offline mode (no DOC_INTELLIGENCE_KEY) a
\* read_document_content call that found its document returns the
\* document's text as its result, not a message or an error, and the
\* analysis provider is not called.
C28_OfflineReturnsText ==
  (DOC_INTELLIGENCE_KEY = "" /\ DocumentFound)
    => (tool.out.kind = "result" /\ poll.submits = 0)


\* The arguments with which update_customer_status writes.
Writable(args) == args.customerId # "" /\ args.status \in 1..4
Enters(name) == tool.pc = "idle" /\ tool'.name = name

\* C39: update_customer_status sends its PATCH only when customerId is not
\* empty and status is one of 1..4.  Called with an empty customerId, with
\* status 0 or with a status below 1 or above 4 it returns a message in the
\* step that enters it: no token exchange is started, the credential cache
\* is not touched and no request is sent to the record store.
C39_UpdateWritesOnlyValidStatus ==
  /\ [](tool.name = "update_customer_status" =>
          /\ tool.calls # <<>> => (Writable(tool.args) /\ tool.calls = <<"PATCH">>)
          /\ ~Writable(tool.args) =>
               (tool.pc = "returned" /\ tool.out.kind = "message" /\ tool.calls = <<>>))
  /\ [][ Enters("update_customer_status") =>
           IF Writable(tool'.args)
             THEN tool'.pc = "token" /\ tool'.method = "PATCH"
             ELSE /\ tool'.pc = "returned" /\ tool'.out.kind = "message"
                  /\ tool'.calls = <<>> /\ UNCHANGED tokenVars
       ]_vars

\* A call with status 5 returned the range message after an earlier call
\* had filled the credential cache: no exchange, no request.
C39_Witness ==
  /\ tool.name = "update_customer_status" /\ tool.pc = "returned"
  /\ tool.args.customerId = Guid /\ tool.args.status = 5
  /\ tool.out.text = "status must be 1, 2, 3 or 4" /\ tool.calls = <<>>
  /\ exchanges = 1 /\ callers[1].pc = "idle"

\* The calls that a handler's input guard turns away.
Guarded(name, args) ==
  CASE name = "get_customer" -> args.customerId = "" /\ args.customerName = ""
    [] name = "read_document_content" -> args.documentId = "" /\ args.filename = ""
    [] name = "verify_lei" -> args.lei.len # 20 \/ ~args.lei.upperAlnum
    [] name = "screen_adverse_media" -> PERPLEXITY_API_KEY = ""
    [] OTHER -> FALSE

\* C40: the input guards come before every external call.  get_customer
\* with neither id nor name, read_document_content with neither documentId
\* nor filename, verify_lei with a code that is not 20 characters of
\* A-Z/0-9 and screen_adverse_media without a screening key return a
\* message in the step that enters them: no token exchange, no request to
\* the record store or to a public API, no analysis.  A
\* read_document_content call whose document has no file content returns
\* its message after the one record-store read and submits no analysis.
C40_GuardsBeforeExternalCalls ==
  /\ [](Guarded(tool.name, tool.args) =>
          (tool.pc = "returned" /\ tool.out.kind = "message" /\ tool.calls = <<>>))
  /\ [][ (tool.pc = "idle" /\ tool' # tool /\ Guarded(tool'.name, tool'.args)) =>
           /\ tool'.pc = "returned" /\ tool'.out.kind = "message" /\ tool'.calls = <<>>
           /\ UNCHANGED <<tokenVars, pollVars, riskVars>>
       ]_vars
  /\ [](tool.out.text = "No file content found for this document" =>
          /\ tool.name = "read_document_content" /\ tool.pc = "returned"
          /\ tool.calls = <<"GET">> /\ poll.submits = 0 /\ poll.pc = "idle")
  /\ [][ (tool.pc = "store" /\ tool'.out.text = "No file content found for this document")
           => UNCHANGED pollVars ]_vars

\* verify_lei was called with 20 characters that are not all A-Z/0-9 and
\* returned its format message without asking the registry.
C40_Witness ==
  /\ tool.name = "verify_lei" /\ tool.pc = "returned"
  /\ tool.args.lei = [len |-> 20, upperAlnum |-> FALSE]
  /\ tool.out.kind = "message" /\ tool.calls = <<>> /\ exchanges = 0
(***************************************************************************)
(* CLAIMS: rejected requests (checked under SpecGate)                      *)
(***************************************************************************)
\* The step answers a request to /mcp, or to /test-dataverse, with 401 or 403.
RejectsMcp == last' # last /\ last'.auth # "next"
RejectsTestDataverse ==
  /\ served' # served /\ served'.route = "GET /test-dataverse"
  /\ served'.status \in {401, 403}

\* C30: with a secret configured, a request that validateApiKey answers
\* with 401 or 403 creates no transport and mints no session, is handed to
\* no transport and to no handler, starts no token exchange and no other
\* external call, and leaves the session registry and the credential cache
\* as they were.
C30_RejectedChangesNothing ==
  /\ [](API_KEY # NoKey)
  /\ [][ (RejectsMcp \/ RejectsTestDataverse)
           => /\ UNCHANGED <<streamableTransports, transports, closed>>
              /\ UNCHANGED tokenVars
              /\ UNCHANGED <<toolVars, pollVars, riskVars>>
              /\ RejectsMcp => /\ last'.status \in {401, 403}
                               /\ last'.handedTo = 0 /\ last'.sdk = "none"
              /\ RejectsTestDataverse => ~served'.reached ]_vars

\* A DELETE with a wrong secret named a live session and was answered 403:
\* the session is still registered; the token cached by an earlier accepted
\* /test-dataverse is still there.
C30_Witness ==
  /\ last.route = "DELETE" /\ last.auth = "403" /\ last.status = 403
  /\ KnownSession(streamableTransports, last.hdr)
  /\ dataverseToken # NoToken /\ exchanges = 1

(***************************************************************************)
(* CLAIMS: requests in flight (checked under SpecFlight, C24 under         *)
(* SpecWait)                                                               *)
(***************************************************************************)
Written(x) == flights.res[x]
SameSession(a, b) == Arrived(a) /\ Arrived(b) /\ flights.req[a].sid = flights.req[b].sid

C22_ArrivalOrder ==
  \A i, j \in 1..Len(flights.store) :
    (i < j /\ SameSession(flights.store[i], flights.store[j]))
      => flights.store[i] < flights.store[j]

\* The step that request r, whose handler has not ended, can take next.
CanGoOn(r) ==
  LET f == flights.req[r] IN
  /\ (f.tool.pc = "token" /\ callers[r].pc = "fetching") => ENABLED FlightExchangeResponse(r)
  /\ (f.tool.pc = "token" /\ callers[r].pc # "fetching") => ENABLED FlightTokenSettled(r)
  /\ f.tool.pc = "store" => \A o \in FlightStoreOutcomes : ENABLED FlightStoreResponse(r, o)
  /\ f.tool.pc \in {"returned", "threw"} => ENABLED FlightSettled(r)

Waits(a) == Running(a) /\ flights.req[a].tool.pc \in {"token", "store", "extract"}

\* C24: while a request waits for an external call or between two status
\* polls, the server accepts a new session, accepts the next request on any
\* live session, and every other request in flight can take its next step
\* (its fetch is answered, its outcome is handed to its transport).
C24_WaitingDoesNotBlock ==
  \A a \in Callers :
    Waits(a) =>
      /\ Len(transports) < MaxTransports
           => ENABLED (PostMcp(NoHeader, InitializeBody, NoCarrier) /\ UNCHANGED exceptSession)
      /\ \A b \in Callers \ {a} :
           /\ (~Arrived(b) /\ \A q \in Callers : q < b => Arrived(q))
                => \A s \in Minted : \A call \in WaitCalls(b) : ENABLED Arrive(b, s, call)
           /\ flights.req[b].tool.pc = "fetch"
                => \A o \in FlightFetchOutcomes : ENABLED FlightFetchResponse(b, o)
           /\ (Running(b) /\ flights.req[b].tool.pc \in {"returned", "threw"})
                => ENABLED FlightSettled(b)

\* The second request arrived, ran and got its response while the first is
\* between its third and its fourth status poll.
C24_Witness ==
  /\ flights.req[1].tool.pc = "extract" /\ poll.pc = "waiting" /\ poll.i = 3
  /\ flights.req[2].sent /\ Len(Written(2)) = 1 /\ Written(2)[1].kind = "result"

(***************************************************************************)
(* SPECIFICATIONS                                                          *)
(***************************************************************************)
InitToken == TokenInit /\ SessionIdle /\ PollIdle /\ RiskIdle /\ ToolIdle /\ AuthIdle /\ FlightIdle
SpecToken == InitToken /\ [][TokenNext]_vars

InitSession == SessionInit /\ TokenInit /\ PollIdle /\ RiskIdle /\ ToolIdle /\ AuthIdle /\ FlightIdle
SpecSession == InitSession /\ [][SessionNext]_vars

InitPoll == PollInit /\ TokenInit /\ SessionIdle /\ RiskIdle /\ ToolIdle /\ AuthIdle /\ FlightIdle
SpecPoll == InitPoll /\ [][PollNext]_vars

InitRisk == RiskInit /\ TokenInit /\ SessionIdle /\ PollIdle /\ ToolIdle /\ AuthIdle /\ FlightIdle
SpecRisk == InitRisk /\ [][RiskNext]_vars

InitTools == ToolInit /\ TokenInit /\ SessionIdle /\ PollInit /\ RiskInit /\ AuthIdle /\ FlightIdle
SpecTools == InitTools /\ [][ToolsNext]_vars

InitRoutes == AuthInit /\ SessionInit /\ TokenInit /\ PollInit /\ RiskIdle /\ ToolIdle /\ FlightIdle
SpecRoutes == InitRoutes /\ [][RoutesNext]_vars

\* Every provider call is answered and every timer fires.
SpecPollFair == InitPoll /\ [][PollNext]_vars /\ WF_vars(PollNext)

\* Every fetch of the handler settles.
SpecRiskFair == InitRisk /\ [][RiskNext]_vars /\ WF_vars(RiskNext)

InitCalls == ToolInit /\ TokenInit /\ SessionIdle /\ PollInit /\ RiskInit /\ AuthIdle /\ FlightIdle
SpecCalls == InitCalls /\ [][CallsNext]_vars

InitGate == SessionSecured /\ TokenInit /\ PollIdle /\ RiskIdle /\ ToolIdle /\ AuthIdle /\ FlightIdle
SpecGate == InitGate /\ [][GateNext]_vars

PollReady == DOC_INTELLIGENCE_KEY = "key" /\ poll = IdlePoll
InitFlight == FlightIdle /\ SessionIdle /\ TokenInit /\ PollReady /\ RiskIdle /\ ToolIdle /\ AuthIdle
SpecFlight == InitFlight /\ [][FlightNext]_vars
SpecWait == InitFlight /\ [][WaitNext]_vars

====
